---- MODULE Spec2Model ----
(***************************************************************************)
(* State-machine model of the provider fallback, caching and circuit       *)
(* breaker code of the financial research extension:                       *)
(*   - LLMProcessor            (src/llm-processor.js)                      *)
(*   - StockDataClient and the quote providers (src/api-clients.js)        *)
(*   - NewsDataClient and the news providers   (src/api-clients.js)        *)
(* The JavaScript host is single-threaded and cooperative: an async        *)
(* function runs atomically from one await to the next.  Every action      *)
(* below is one such run; calls in flight are slots of a function.         *)
(***************************************************************************)
EXTENDS Integers, Sequences, FiniteSets, Bags, TLC

(***************************************************************************)
(* Bounds of the model                                                     *)
(***************************************************************************)
\* number of gateway operations that may be in flight at once
MaxCalls == 2
\* capacity of the LLM result cache used by the model (the code uses 100)
maxCacheSize == 2

(***************************************************************************)
(* JavaScript values                                                       *)
(***************************************************************************)
Null == "null"

\* JS truthiness of a string-or-null value
Falsy(v) == v = Null \/ v = ""

\* JS  a || b
Or(a, b) == IF Falsy(a) THEN b ELSE a

(***************************************************************************)
(* config.js (src/unnamed/part_000)                                        *)
(***************************************************************************)
CONFIG ==
    [ USE_HARDCODED_CONFIG |-> TRUE,
      LLM |-> [ baseUrl |-> "https://api.x.ai/v1/chat/completions",
                model   |-> "grok-beta",
                apiKey  |-> "" ] ]

(***************************************************************************)
(* LLMProcessor                                                            *)
(***************************************************************************)
VARIABLES
    apiKey,          \* this.apiKey
    baseUrl,         \* this.baseUrl
    model,           \* this.model
    failureCount,    \* this.failureCount
    remoteDisabled,  \* this.remoteDisabled
    llmCache,        \* this.cache: insertion-ordered sequence of [key, value]
    settings,        \* chrome.storage.local 'agentic_settings'
    llm,             \* bag of the gateway operations in flight
    tripped,         \* history: some remote call has failed
    scored,          \* the last calculateConfidenceScore call: input and result
    now,             \* Date.now()
    ticks            \* history: number of clock advances

llmVars == <<apiKey, baseUrl, model, failureCount, remoteDisabled, llmCache,
             settings, llm, tripped, scored>>

VARIABLES
    stockCache,      \* StockDataClient.cache, by symbol (key stock_<symbol>)
    lastFetchTime,   \* StockDataClient.lastFetchTime, by symbol
    stock,           \* bag of the getStockPrice calls in flight
    batch,           \* the getMultipleStockPrices call
    history          \* bag of the getStockHistory calls in flight

stockVars == <<stockCache, lastFetchTime, stock, batch, history>>

VARIABLES
    newsCache,        \* NewsDataClient.cache, by query and options
    rateLimitedUntil, \* NewsAPIClient._rateLimitedUntil
    news,             \* bag of the getNews calls in flight
    search            \* the searchForStockNews call in flight

newsVars == <<newsCache, rateLimitedUntil, news, search>>

VARIABLES
    waitingForResponse, \* AgenticContentScript.waitingForResponse
    runtime,            \* chrome.runtime as the content script finds it
    outbox,             \* bag of the safeSendMessage promises not yet consumed
    settles             \* history: how SAVE_DETECTED_CONTEXT sends have settled

pageVars == <<waitingForResponse, runtime, outbox, settles>>

DefaultBaseUrl == "https://api.openai.com/v1/chat/completions"
DefaultModel == "gpt-3.5-turbo"

\* API keys a caller may hand to updateConfig
KeyInputs == {"sk-1"}
UrlInputs == {Null, "https://llm.example/v1"}
ModelInputs == {Null, "m-1"}

GatewayOps ==
    {"processTaskInput", "analyzeConditionResults", "interpretMarketData",
     "generateNotificationContent", "decideNextAction", "researchPlan",
     "researchSynthesize", "healthCheck"}

CachedOps == {"processTaskInput", "analyzeConditionResults"}

\* the promptType each operation hands to makeLLMCall
PromptTypeOf(op) ==
    CASE op = "processTaskInput"            -> "task_understanding"
      [] op = "analyzeConditionResults"     -> "condition_analysis"
      [] op = "interpretMarketData"         -> "data_interpretation"
      [] op = "generateNotificationContent" -> "notification_content"
      [] op = "decideNextAction"            -> "decision_making"
      [] op = "researchPlan"                -> "task_understanding"
      [] op = "researchSynthesize"          -> "data_interpretation"
      [] op = "healthCheck"                 -> "task_understanding"

\* what the completion endpoint may answer to one request
RemoteFailures == {"http400", "http401", "http500", "network_error", "bad_body"}
RemoteReplies == {"json", "json_falsy", "text", "no_choices"}
RemoteOutcomes == RemoteReplies \cup RemoteFailures

NoResult == [src |-> "none", kind |-> "none", parsed |-> "none"]

\* fallbackProcessing: the rule-based routine chosen by promptType
fallbackProcessing(promptType) ==
    CASE promptType = "task_understanding" ->
            [src |-> "fallback", kind |-> "fallbackTaskUnderstanding", parsed |-> "none"]
      [] promptType = "condition_analysis" ->
            [src |-> "fallback", kind |-> "fallbackConditionAnalysis", parsed |-> "none"]
      [] promptType = "data_interpretation" ->
            [src |-> "fallback", kind |-> "fallbackDataInterpretation", parsed |-> "none"]
      [] promptType = "decision_making" ->
            [src |-> "fallback", kind |-> "fallbackDecisionMaking", parsed |-> "none"]
      [] OTHER ->
            [src |-> "fallback", kind |-> "Processing unavailable", parsed |-> "false"]

\* parseLLMResponse: JSON content is returned as decoded, other content is
\* wrapped, a reply without choices[0].message.content gives the fixed text
parseLLMResponse(reply) ==
    CASE reply = "json"       -> [src |-> "remote", kind |-> "json", parsed |-> "none"]
      [] reply = "json_falsy" -> [src |-> "remote", kind |-> "json_falsy", parsed |-> "none"]
      [] reply = "text"       -> [src |-> "remote", kind |-> "text", parsed |-> "true"]
      [] OTHER                -> [src |-> "remote", kind |-> "Unable to process LLM response",
                                  parsed |-> "false"]

\* JS truthiness of a gateway result (JSON.parse may give null, 0, false, "")
Truthy(result) == result.kind # "json_falsy"

\* mutant: the guard looks at the key only
UseFallbackKeyOnly(key, disabled) == Falsy(key)

\* mutant: the guard looks at the circuit only
UseFallbackCircuitOnly(key, disabled) == disabled

\* makeLLMCall line 107: the guard that routes a call to the fallback
UseFallback(key, disabled) == Falsy(key) \/ disabled

\* makeLLMCall lines 138-143: 400/401 disable the gateway before throwing
ClientError(outcome) == outcome \in {"http400", "http401"}

\* mutant: the circuit opens at the second failure
TripThresholdSecondFailure(count) == count >= 2

\* makeLLMCall lines 152-157: the catch block's breaker update
TripThreshold(count) == count >= 1

\* a gateway operation in flight: pc is "fetch" while the request is out and
\* "resolved" once its promise is settled and its caller has yet to resume;
\* via tells how the result was obtained; outcome tells how the promise of
\* makeLLMCall settled; remote, startDisabled, startTripped and startKey
\* record whether makeLLMCall issued a request and what the gateway's state
\* was when it started, answeredAt the time at which the endpoint's answer
\* arrived (-1 while there is none)
NewCall(op, input) ==
    [pc |-> "resolved", op |-> op, input |-> input, via |-> "makeLLMCall",
     result |-> NoResult, outcome |-> "returned", remote |-> FALSE,
     startDisabled |-> FALSE, startTripped |-> FALSE, startKey |-> Null,
     answeredAt |-> -1]

Calls == BagToSet(llm)

InFlight == BagCardinality(llm)

Replace(old, new) == (llm (-) SetToBag({old})) (+) SetToBag({new})

(* ---- the result cache (a JS Map keeps insertion order) ---- *)
CacheKeyOf(op, input) == <<op, input>>

CacheIndex(c, key) ==
    IF \E i \in 1..Len(c) : c[i].key = key
    THEN CHOOSE i \in 1..Len(c) : c[i].key = key
    ELSE 0

CacheHas(c, key) == CacheIndex(c, key) # 0

CacheGet(c, key) == c[CacheIndex(c, key)].value

\* Map.set: an existing key keeps its place, a new key goes last
MapSet(c, key, value) ==
    IF CacheHas(c, key)
    THEN [c EXCEPT ![CacheIndex(c, key)].value = value]
    ELSE Append(c, [key |-> key, value |-> value])

\* mutant: nothing is deleted at capacity
storeInCacheUnbounded(c, key, value, t) ==
    MapSet(c, key,
           [src |-> value.src, kind |-> value.kind, parsed |-> value.parsed,
            cacheTimestamp |-> t])

\* mutant: at capacity the key inserted last is deleted
storeInCacheNewestOut(c, key, value, t) ==
    LET kept == IF Len(c) >= maxCacheSize THEN SubSeq(c, 1, Len(c) - 1) ELSE c
    IN  MapSet(kept, key,
               [src |-> value.src, kind |-> value.kind, parsed |-> value.parsed,
                cacheTimestamp |-> t])

\* storeInCache: at capacity the first key of the Map is deleted, then set
storeInCache(c, key, value, t) ==
    LET kept == IF Len(c) >= maxCacheSize THEN Tail(c) ELSE c
    IN  MapSet(kept, key,
               [src |-> value.src, kind |-> value.kind, parsed |-> value.parsed,
                cacheTimestamp |-> t])

(* ---- initialize ---- *)
\* 'agentic_settings' before anything was stored: no field is set
NoSettings == [apiKey |-> Null, llmBaseUrl |-> Null, llmModel |-> Null]

\* mutant: initialize re-arms the breaker
InitializeRearms ==
    /\ apiKey' = Or(CONFIG.LLM.apiKey, apiKey)
    /\ baseUrl' = Or(CONFIG.LLM.baseUrl, baseUrl)
    /\ model' = Or(CONFIG.LLM.model, model)
    /\ remoteDisabled' = FALSE
    /\ failureCount' = 0
    /\ UNCHANGED <<llmCache, settings, llm, tripped, now, ticks, scored,
                   stockVars, newsVars, pageVars>>

Initialize ==
    /\ IF CONFIG.USE_HARDCODED_CONFIG
       THEN /\ apiKey' = Or(CONFIG.LLM.apiKey, apiKey)
            /\ baseUrl' = Or(CONFIG.LLM.baseUrl, baseUrl)
            /\ model' = Or(CONFIG.LLM.model, model)
       ELSE /\ apiKey' = IF ~Falsy(settings.apiKey)
                         THEN settings.apiKey ELSE apiKey
            /\ baseUrl' = IF ~Falsy(settings.llmBaseUrl)
                          THEN settings.llmBaseUrl ELSE baseUrl
            /\ model' = IF ~Falsy(settings.llmModel)
                        THEN settings.llmModel ELSE model
    /\ UNCHANGED <<failureCount, remoteDisabled, llmCache, settings, llm, tripped, now, ticks, scored,
                   stockVars, newsVars, pageVars>>

(* ---- updateConfig ---- *)
UpdateConfigFields(k, u, m) ==
    /\ apiKey' = k
    /\ baseUrl' = IF ~Falsy(u) THEN u ELSE baseUrl
    /\ model' = IF ~Falsy(m) THEN m ELSE model
    /\ settings' = [apiKey |-> apiKey', llmBaseUrl |-> baseUrl', llmModel |-> model']
    /\ UNCHANGED <<failureCount, remoteDisabled, pageVars>>

UpdateConfig(k, u, m) ==
    /\ UpdateConfigFields(k, u, m)
    /\ UNCHANGED <<llmCache, llm, tripped, now, ticks, scored,
                   stockVars, newsVars, pageVars>>

(* ---- an operation up to its first await ---- *)
\* healthCheck without a key answers at once
HealthNoKey ==
    /\ InFlight < MaxCalls
    /\ Falsy(apiKey)
    /\ llm' = llm (+) SetToBag({[NewCall("healthCheck", "none") EXCEPT
                                   !.via = "no_key",
                                   !.result = [src |-> "healthCheck", kind |-> "no_key",
                                               parsed |-> "none"]]})
    /\ UNCHANGED <<apiKey, baseUrl, model, failureCount, remoteDisabled, llmCache,
                   settings, tripped, now, ticks, scored,
                   stockVars, newsVars, pageVars>>

\* makeLLMCall up to its first await: the fallback at once, or a request
MakeLLMCallStart(op, input) ==
    IF UseFallback(apiKey, remoteDisabled)
    THEN [NewCall(op, input) EXCEPT !.result = fallbackProcessing(PromptTypeOf(op)),
                                    !.startDisabled = remoteDisabled,
                                    !.startTripped = tripped,
                                    !.startKey = apiKey]
    ELSE [NewCall(op, input) EXCEPT !.pc = "fetch",
                                    !.outcome = "pending",
                                    !.remote = TRUE,
                                    !.startDisabled = remoteDisabled,
                                    !.startTripped = tripped,
                                    !.startKey = apiKey]

\* mutant: the cached entry is ignored and the gateway is called
CacheHitCallsGateway(op, input) ==
    /\ InFlight < MaxCalls
    /\ op \in CachedOps
    /\ CacheHas(llmCache, CacheKeyOf(op, input))
    /\ llm' = llm (+) SetToBag({MakeLLMCallStart(op, input)})
    /\ UNCHANGED <<apiKey, baseUrl, model, failureCount, remoteDisabled, llmCache,
                   settings, tripped, now, ticks, scored,
                   stockVars, newsVars, pageVars>>

\* mutant: a hit makes its entry the most recent one of the Map
CacheHitPromotes(op, input) ==
    /\ InFlight < MaxCalls
    /\ op \in CachedOps
    /\ CacheHas(llmCache, CacheKeyOf(op, input))
    /\ llm' = llm (+) SetToBag({[NewCall(op, input) EXCEPT
                                   !.via = "cache",
                                   !.result = CacheGet(llmCache, CacheKeyOf(op, input))]})
    /\ llmCache' =
          LET k == CacheIndex(llmCache, CacheKeyOf(op, input))
          IN  Append(SubSeq(llmCache, 1, k - 1) \o SubSeq(llmCache, k + 1, Len(llmCache)),
                     llmCache[k])
    /\ UNCHANGED <<apiKey, baseUrl, model, failureCount, remoteDisabled,
                   settings, tripped, now, ticks, scored,
                   stockVars, newsVars, pageVars>>

\* processTaskInput / analyzeConditionResults served from the cache
CacheHit(op, input) ==
    /\ InFlight < MaxCalls
    /\ op \in CachedOps
    /\ CacheHas(llmCache, CacheKeyOf(op, input))
    /\ llm' = llm (+) SetToBag({[NewCall(op, input) EXCEPT
                                   !.via = "cache",
                                   !.result = CacheGet(llmCache, CacheKeyOf(op, input))]})
    /\ UNCHANGED <<apiKey, baseUrl, model, failureCount, remoteDisabled, llmCache,
                   settings, tripped, now, ticks, scored,
                   stockVars, newsVars, pageVars>>

StartOp(op, input) ==
    /\ InFlight < MaxCalls
    /\ op = "healthCheck" => ~Falsy(apiKey)
    /\ op \in CachedOps => ~CacheHas(llmCache, CacheKeyOf(op, input))
    /\ llm' = llm (+) SetToBag({MakeLLMCallStart(op, input)})
    /\ UNCHANGED <<apiKey, baseUrl, model, failureCount, remoteDisabled, llmCache,
                   settings, tripped, now, ticks, scored,
                   stockVars, newsVars, pageVars>>

(* ---- the endpoint answers: makeLLMCall lines 138-159 ---- *)
\* lines 138-143 then the catch block of lines 149-157: a 400/401 disables
\* the gateway before throwing; the catch block counts the failure and opens
\* the circuit once the count reaches the threshold
BreakerAfterFailure(outcome) ==
    LET disabled1 == IF ClientError(outcome) THEN TRUE ELSE remoteDisabled
        key1 == IF ClientError(outcome) THEN Null ELSE apiKey
        count1 == failureCount + 1
    IN  [failureCount |-> count1,
         remoteDisabled |-> IF TripThreshold(count1) THEN TRUE ELSE disabled1,
         apiKey |-> IF TripThreshold(count1) THEN Null ELSE key1]

\* mutant: the catch block counts the failure and throws it again
RespondFailRethrows(c, outcome) ==
    /\ c \in Calls
    /\ c.pc = "fetch"
    /\ outcome \in RemoteFailures
    /\ failureCount' = BreakerAfterFailure(outcome).failureCount
    /\ remoteDisabled' = BreakerAfterFailure(outcome).remoteDisabled
    /\ apiKey' = BreakerAfterFailure(outcome).apiKey
    /\ tripped' = TRUE
    /\ llm' = Replace(c, [c EXCEPT !.pc = "resolved", !.outcome = "raised",
                                   !.answeredAt = now])
    /\ UNCHANGED <<baseUrl, model, llmCache, settings, now, ticks, scored,
                   stockVars, newsVars, pageVars>>

\* lines 149-159: the catch block returns the fallback of the promptType
RespondFail(c, outcome) ==
    /\ c \in Calls
    /\ c.pc = "fetch"
    /\ outcome \in RemoteFailures
    /\ failureCount' = BreakerAfterFailure(outcome).failureCount
    /\ remoteDisabled' = BreakerAfterFailure(outcome).remoteDisabled
    /\ apiKey' = BreakerAfterFailure(outcome).apiKey
    /\ tripped' = TRUE
    /\ llm' = Replace(c, [c EXCEPT !.pc = "resolved",
                                   !.outcome = "returned",
                                   !.answeredAt = now,
                                   !.result = fallbackProcessing(PromptTypeOf(c.op))])
    /\ UNCHANGED <<baseUrl, model, llmCache, settings, now, ticks, scored,
                   stockVars, newsVars, pageVars>>

\* mutant: the reply of a request that was out when the circuit opened is
\* dropped for the fallback
RespondOkDropsWhenDisabled(c, outcome) ==
    /\ c \in Calls
    /\ c.pc = "fetch"
    /\ outcome \in RemoteReplies
    /\ llm' = Replace(c, [c EXCEPT !.pc = "resolved",
                                   !.outcome = "returned",
                                   !.answeredAt = now,
                                   !.result = IF remoteDisabled
                                              THEN fallbackProcessing(PromptTypeOf(c.op))
                                              ELSE parseLLMResponse(outcome)])
    /\ UNCHANGED <<apiKey, baseUrl, model, failureCount, remoteDisabled, llmCache,
                   settings, tripped, now, ticks, scored,
                   stockVars, newsVars, pageVars>>

\* lines 147-148: a 2xx reply with a readable body is decoded and returned
RespondOk(c, outcome) ==
    /\ c \in Calls
    /\ c.pc = "fetch"
    /\ outcome \in RemoteReplies
    /\ llm' = Replace(c, [c EXCEPT !.pc = "resolved",
                                   !.outcome = "returned",
                                   !.answeredAt = now,
                                   !.result = parseLLMResponse(outcome)])
    /\ UNCHANGED <<apiKey, baseUrl, model, failureCount, remoteDisabled, llmCache,
                   settings, tripped, now, ticks, scored,
                   stockVars, newsVars, pageVars>>

(* ---- the operation resumes after  await this.makeLLMCall(...) ---- *)
\* what the operation hands back to its caller
OpReturn(c) ==
    CASE c.via # "makeLLMCall" -> c.result
      [] c.op = "healthCheck" ->
            [src |-> "healthCheck", kind |-> "healthy", parsed |-> "none"]
      [] c.op = "interpretMarketData" ->
            IF Truthy(c.result) THEN c.result
            ELSE [src |-> "fallback", kind |-> "getDefaultMarketAnalysis",
                  parsed |-> "none"]
      [] OTHER -> c.result

\* the operation stores a truthy result of a cached operation and returns
Continue(c) ==
    /\ c \in Calls
    /\ c.pc = "resolved"
    /\ llmCache' = IF c.via = "makeLLMCall" /\ c.op \in CachedOps /\ Truthy(c.result)
                   THEN storeInCache(llmCache, CacheKeyOf(c.op, c.input), c.result, now)
                   ELSE llmCache
    /\ llm' = llm (-) SetToBag({c})
    /\ UNCHANGED <<apiKey, baseUrl, model, failureCount, remoteDisabled,
                   settings, tripped, now, ticks, scored,
                   stockVars, newsVars, pageVars>>

(***************************************************************************)
(* Time                                                                    *)
(***************************************************************************)
\* number of clock advances in a behaviour
MaxTicks == 2

\* the clock advances by d milliseconds
Tick(d) ==
    /\ ticks < MaxTicks
    /\ ticks' = ticks + 1
    /\ now' = now + d
    /\ UNCHANGED <<llmVars, stockVars, newsVars, pageVars>>

(***************************************************************************)
(* LLMProcessor.calculateConfidenceScore                                   *)
(***************************************************************************)
\* IEEE-754 doubles of [0.5, 2) and the literal 0.1, written exactly as the
\* pair <<hi, lo>> that stands for (hi * 2^28 + lo) * 2^-56
Limb == 268435456
Tenth == <<26843545, 161061274>>        \* 0.1 = 0x1.999999999999Ap-4
Fifth == <<53687091, 53687092>>         \* 0.2 = 0x1.999999999999Ap-3
Half == <<134217728, 0>>                \* 0.5
SevenTenths == <<187904819, 53687088>>  \* 0.7 = 0x1.6666666666666p-1
One == <<268435456, 0>>                 \* 1

\* a <= b for doubles
DoubleLeq(a, b) == a[1] < b[1] \/ (a[1] = b[1] /\ a[2] <= b[2])

\* a + b for a sum in [0.5, 2): the exact sum rounded to the nearest double
\* (53 significant bits), a tie going to the even one
DoubleAdd(a, b) ==
    LET lo0 == a[2] + b[2]
        hi0 == a[1] + b[1] + (lo0 \div Limb)
        lo1 == lo0 % Limb
        ulp == IF hi0 >= Limb THEN 16 ELSE 8
        rem == lo1 % ulp
        up  == 2 * rem > ulp \/ (2 * rem = ulp /\ (lo1 \div ulp) % 2 = 1)
        lo2 == IF up THEN lo1 - rem + ulp ELSE lo1 - rem
    IN  <<hi0 + (lo2 \div Limb), lo2 % Limb>>

\* Math.min
MathMin(a, b) == IF DoubleLeq(a, b) THEN a ELSE b

FRESH_MS == 300000

\* the data argument: a quote object of a symbol with any of the fields the
\* score looks at missing, or no object at all; timestamp is the instant
\* its ISO string denotes
NoData == [undefined |-> TRUE]
ScoreInputs ==
    {NoData} \cup
    {[f \in S \cup {"symbol"} |-> q[f]] :
        q \in [symbol : {"AAPL"}, price : {0, 100}, volume : {1000, 5000},
               source : {"x"}, timestamp : {0}],
        S \in SUBSET {"price", "volume", "source", "timestamp"}}

\* data.f is defined
Has(data, f) == f \in DOMAIN data

\* lines 418-429
calculateConfidenceScore(data, t) ==
    IF data = NoData THEN Tenth
    ELSE LET s0 == Half
             s1 == IF Has(data, "price") /\ data.price > 0
                   THEN DoubleAdd(s0, Fifth) ELSE s0
             s2 == IF Has(data, "volume") /\ data.volume > 1000
                   THEN DoubleAdd(s1, Tenth) ELSE s1
             s3 == IF Has(data, "source") /\ ~Falsy(data.source)
                   THEN DoubleAdd(s2, Tenth) ELSE s2
             s4 == IF Has(data, "timestamp") /\ t - data.timestamp < FRESH_MS
                   THEN DoubleAdd(s3, Tenth) ELSE s3
         IN  MathMin(s4, One)

NoScore == [data |-> NoData, at |-> -1, score |-> <<0, 0>>]

\* one call of calculateConfidenceScore
CalculateConfidenceScore(data) ==
    /\ scored' = [data |-> data, at |-> now,
                  score |-> calculateConfidenceScore(data, now)]
    /\ UNCHANGED <<apiKey, baseUrl, model, failureCount, remoteDisabled, llmCache,
                   settings, llm, tripped, now, ticks,
                   stockVars, newsVars, pageVars>>

(***************************************************************************)
(* Quote providers                                                         *)
(***************************************************************************)
Symbols == {"AAPL", "aapl"}

\* a normalized quote; price stands for the numeric fields and the timestamp
NoQuote == [symbol |-> "none", price |-> 0, source |-> "none"]
NoError == [tag |-> "none", detail |-> "none"]

\* an Error whose message is  `${tag}: ${detail}`  (or  `${tag} ${detail}`)
Err(tag, detail) == [tag |-> tag, detail |-> detail]

\* what one provider call gives: a value or a thrown error
Ok(v) == [ok |-> TRUE, value |-> v, error |-> NoError]
Thrown(e) == [ok |-> FALSE, value |-> NoQuote, error |-> e]

\* replies of the Alpha Vantage endpoint: a rejected fetch, a body with a
\* 'Note', a body without 'Global Quote', a body with a quote
AlphaReplies == {"network_error", "note", "no_quote", "quote"}

\* AlphaVantageAPI.getStockData
AlphaVantageGetStockData(symbol, reply) ==
    CASE reply = "quote" ->
            Ok([symbol |-> symbol, price |-> 100, source |-> "alpha_vantage"])
      [] reply = "note" ->
            Thrown(Err("Alpha Vantage API error", "API rate limit exceeded"))
      [] reply = "no_quote" ->
            Thrown(Err("Alpha Vantage API error", "No data found for symbol"))
      [] OTHER ->
            Thrown(Err("Alpha Vantage API error", "Failed to fetch"))

\* the symbols the Yahoo endpoint reports in meta.symbol: its own upper-case
\* spelling, whatever the spelling of the request
MetaSymbols == {"AAPL"}

\* replies of the Yahoo endpoint: a rejected fetch, a body without
\* chart.result[0], a result without meta, a result whose meta names a symbol
YahooReplies ==
    {[kind |-> k, symbol |-> "none"] : k \in {"network_error", "no_chart", "no_meta"}}
    \cup {[kind |-> "chart", symbol |-> m] : m \in MetaSymbols}

\* YahooFinanceAPI.getStockData: the quote carries meta.symbol
YahooFinanceGetStockData(symbol, reply) ==
    CASE reply.kind = "chart" ->
            Ok([symbol |-> reply.symbol, price |-> 100, source |-> "yahoo_finance"])
      [] reply.kind = "no_chart" ->
            Thrown(Err("Yahoo Finance API error", "Invalid symbol or no data"))
      [] reply.kind = "no_meta" ->
            Thrown(Err("Yahoo Finance API error", "Cannot read properties of undefined"))
      [] OTHER ->
            Thrown(Err("Yahoo Finance API error", "Failed to fetch"))

\* replies of the Finnhub endpoint: a rejected fetch, a body with an error
\* field, a quote
FinnhubReplies == {"network_error", "error", "quote"}

\* FinnhubAPI.getStockData
FinnhubGetStockData(symbol, reply) ==
    CASE reply = "quote" ->
            Ok([symbol |-> symbol, price |-> 100, source |-> "finnhub"])
      [] reply = "error" ->
            Thrown(Err("Finnhub API error", "You don't have access to this resource."))
      [] OTHER ->
            Thrown(Err("Finnhub API error", "Failed to fetch"))

(***************************************************************************)
(* StockDataClient.getStockPrice                                           *)
(***************************************************************************)
CACHE_DURATION == 60000

\* number of getStockPrice calls that may be in flight at once
MaxStockCalls == 2

\* lastFetchTime of a key that is not in the Map
NoTime == -1

\* lines 17-24: the cached quote is served while it is younger than the TTL
CacheFresh(symbol, t) ==
    /\ stockCache[symbol] # NoQuote
    /\ lastFetchTime[symbol] # NoTime
    /\ t - lastFetchTime[symbol] < CACHE_DURATION

\* mutant: the error of the last provider is thrown again
RaisedErrorRethrown(symbol, error2) == error2

\* mutant: the error does not say which symbol failed
RaisedErrorAnonymous(symbol, error2) == Err("Unable to fetch data", "")

\* line 42: the error thrown once the last provider tried has failed;
\* error2 is logged and not attached
RaisedError(symbol, error2) == Err("Unable to fetch data for", symbol)

\* a getStockPrice call: pc is the provider being awaited, or "done"; now is
\* the time read at line 15; net lists the providers contacted and errors
\* the errors they threw; finnhub is what the Finnhub endpoint would have
\* answered when the last provider tried failed
StockCall(symbol, t) ==
    [pc |-> "alpha", symbol |-> symbol, now |-> t, outcome |-> "pending",
     value |-> NoQuote, error |-> NoError, net |-> <<"alpha_vantage">>,
     errors |-> <<>>, finnhub |-> "none"]

\* mutant: a call for a symbol that is being fetched joins the fetch in
\* flight instead of contacting the provider
GetStockPriceStartSingleFlight(symbol, t) ==
    IF CacheFresh(symbol, t)
    THEN [StockCall(symbol, t) EXCEPT !.pc = "done", !.outcome = "returned",
                                      !.value = stockCache[symbol], !.net = <<>>]
    ELSE IF \E c \in BagToSet(stock) : c.symbol = symbol /\ c.pc # "done"
         THEN [StockCall(symbol, t) EXCEPT !.pc = "joined", !.net = <<>>]
         ELSE StockCall(symbol, t)

\* lines 13-28: up to the first await
GetStockPriceStart(symbol, t) ==
    IF CacheFresh(symbol, t)
    THEN [StockCall(symbol, t) EXCEPT !.pc = "done", !.outcome = "returned",
                                      !.value = stockCache[symbol], !.net = <<>>]
    ELSE StockCall(symbol, t)

\* mutant: Yahoo Finance is contacted whatever Alpha Vantage answered
AfterAlphaAlsoYahoo(c, reply) ==
    LET r == AlphaVantageGetStockData(c.symbol, reply)
    IN  IF r.ok
        THEN [c EXCEPT !.pc = "done", !.outcome = "returned", !.value = r.value,
                       !.net = Append(@, "yahoo_finance")]
        ELSE [c EXCEPT !.pc = "yahoo", !.errors = Append(@, r.error),
                       !.net = Append(@, "yahoo_finance")]

\* lines 28-36: Alpha Vantage has answered
AfterAlpha(c, reply) ==
    LET r == AlphaVantageGetStockData(c.symbol, reply)
    IN  IF r.ok
        THEN [c EXCEPT !.pc = "done", !.outcome = "returned", !.value = r.value]
        ELSE [c EXCEPT !.pc = "yahoo", !.errors = Append(@, r.error),
                       !.net = Append(@, "yahoo_finance")]

\* lines 36-43: Yahoo Finance has answered
AfterYahoo(c, reply, fh) ==
    LET r == YahooFinanceGetStockData(c.symbol, reply)
    IN  IF r.ok
        THEN [c EXCEPT !.pc = "done", !.outcome = "returned", !.value = r.value]
        ELSE [c EXCEPT !.pc = "done", !.outcome = "raised",
                       !.errors = Append(@, r.error),
                       !.error = RaisedError(c.symbol, r.error),
                       !.finnhub = fh]

\* lines 29-30 and 37-38: a success is stored under the requested symbol,
\* with the time read when the call started
CacheAfter(c) ==
    IF c.outcome = "returned" THEN [stockCache EXCEPT ![c.symbol] = c.value]
    ELSE stockCache

\* mutant: the quote is stored without its fetch time
LastFetchAfterSkipped(c) == lastFetchTime

\* lines 30 and 38: lastFetchTime.set(cacheKey, now)
LastFetchAfter(c) ==
    IF c.outcome = "returned" THEN [lastFetchTime EXCEPT ![c.symbol] = c.now]
    ELSE lastFetchTime

StockCalls == BagToSet(stock)

GetStockPrice(symbol) ==
    /\ BagCardinality(stock) < MaxStockCalls
    /\ stock' = stock (+) SetToBag({GetStockPriceStart(symbol, now)})
    /\ UNCHANGED <<stockCache, lastFetchTime, batch, history, llmVars, newsVars, now, ticks, pageVars>>

AlphaResponds(c, reply) ==
    /\ c \in StockCalls
    /\ c.pc = "alpha"
    /\ stock' = (stock (-) SetToBag({c})) (+) SetToBag({AfterAlpha(c, reply)})
    /\ stockCache' = CacheAfter(AfterAlpha(c, reply))
    /\ lastFetchTime' = LastFetchAfter(AfterAlpha(c, reply))
    /\ UNCHANGED <<batch, history, llmVars, newsVars, now, ticks, pageVars>>

\* mutant: the failure of the last provider is remembered in the cache
YahooRespondsNegativeCache(c, reply, fh) ==
    /\ c \in StockCalls
    /\ c.pc = "yahoo"
    /\ stock' = (stock (-) SetToBag({c})) (+) SetToBag({AfterYahoo(c, reply, fh)})
    /\ stockCache' = CacheAfter(AfterYahoo(c, reply, fh))
    /\ lastFetchTime' = [lastFetchTime EXCEPT ![c.symbol] = c.now]
    /\ UNCHANGED <<batch, history, llmVars, newsVars, now, ticks, pageVars>>

YahooResponds(c, reply, fh) ==
    /\ c \in StockCalls
    /\ c.pc = "yahoo"
    /\ stock' = (stock (-) SetToBag({c})) (+) SetToBag({AfterYahoo(c, reply, fh)})
    /\ stockCache' = CacheAfter(AfterYahoo(c, reply, fh))
    /\ lastFetchTime' = LastFetchAfter(AfterYahoo(c, reply, fh))
    /\ UNCHANGED <<batch, history, llmVars, newsVars, now, ticks, pageVars>>

\* the caller takes the settled promise
TakeStock(c) ==
    /\ c \in StockCalls
    /\ c.pc = "done"
    /\ stock' = stock (-) SetToBag({c})
    /\ UNCHANGED <<stockCache, lastFetchTime, batch, history, llmVars, newsVars, now, ticks, pageVars>>

(***************************************************************************)
(* StockDataClient.getMultipleStockPrices                                  *)
(***************************************************************************)
\* longest list of symbols handed to getMultipleStockPrices
MaxBatch == 2

SymbolLists == UNION {[1..n -> Symbols] : n \in 0..MaxBatch}

NoBatch == [pc |-> "idle", symbols |-> <<>>, calls |-> <<>>, data |-> <<>>]

\* line 49: what one element of  promises  settles to; a rejection becomes
\* the marker {symbol, error} with the requested symbol
Settled(c) ==
    IF c.outcome = "raised"
    THEN [symbol |-> c.symbol, error |-> c.error, quote |-> NoQuote]
    ELSE [symbol |-> c.value.symbol, error |-> NoError, quote |-> c.value]

\* data[key] = value
Put(data, key, value) ==
    [k \in (DOMAIN data) \cup {key} |-> IF k = key THEN value ELSE data[k]]

\* lines 55-63: results.forEach, each result filed under result.symbol
RECURSIVE ForEachResult(_, _)
ForEachResult(results, data) ==
    IF results = <<>> THEN data
    ELSE ForEachResult(Tail(results),
                       Put(data, Head(results).symbol, Head(results)))

\* lines 48-50: every getStockPrice is started in the same run
BatchStart(symbols) ==
    /\ batch.pc = "idle"
    /\ batch' = [pc |-> "running", symbols |-> symbols,
                 calls |-> [i \in 1..Len(symbols) |->
                              GetStockPriceStart(symbols[i], now)],
                 data |-> <<>>]
    /\ UNCHANGED <<stockCache, lastFetchTime, stock, history, llmVars, newsVars, now, ticks, pageVars>>

BatchAlphaResponds(i, reply) ==
    /\ batch.pc = "running"
    /\ i \in 1..Len(batch.calls)
    /\ batch.calls[i].pc = "alpha"
    /\ batch' = [batch EXCEPT !.calls[i] = AfterAlpha(batch.calls[i], reply)]
    /\ stockCache' = CacheAfter(AfterAlpha(batch.calls[i], reply))
    /\ lastFetchTime' = LastFetchAfter(AfterAlpha(batch.calls[i], reply))
    /\ UNCHANGED <<stock, history, llmVars, newsVars, now, ticks, pageVars>>

BatchYahooResponds(i, reply, fh) ==
    /\ batch.pc = "running"
    /\ i \in 1..Len(batch.calls)
    /\ batch.calls[i].pc = "yahoo"
    /\ batch' = [batch EXCEPT !.calls[i] = AfterYahoo(batch.calls[i], reply, fh)]
    /\ stockCache' = CacheAfter(AfterYahoo(batch.calls[i], reply, fh))
    /\ lastFetchTime' = LastFetchAfter(AfterYahoo(batch.calls[i], reply, fh))
    /\ UNCHANGED <<stock, history, llmVars, newsVars, now, ticks, pageVars>>

\* lines 52-65: Promise.all has settled; the map is built and returned
BatchFinish ==
    /\ batch.pc = "running"
    /\ \A i \in 1..Len(batch.calls) : batch.calls[i].pc = "done"
    /\ batch' = [batch EXCEPT
                   !.pc = "done",
                   !.data = ForEachResult([i \in 1..Len(batch.calls) |->
                                             Settled(batch.calls[i])], <<>>)]
    /\ UNCHANGED <<stockCache, lastFetchTime, stock, history, llmVars, newsVars, now, ticks, pageVars>>

\* the caller takes the map
BatchTake ==
    /\ batch.pc = "done"
    /\ batch' = NoBatch
    /\ UNCHANGED <<stockCache, lastFetchTime, stock, history, llmVars, newsVars, now, ticks, pageVars>>

(***************************************************************************)
(* StockDataClient.getStockHistory                                         *)
(***************************************************************************)
\* number of getStockHistory calls that may be in flight at once
MaxHistoryCalls == 2

\* the timeframe argument: the three of functionMap and one it does not hold
Timeframes == {"1day", "1week", "1month", "1year"}

\* lines 120-124: functionMap[timeframe]
functionMap(timeframe) ==
    CASE timeframe = "1day"   -> "TIME_SERIES_DAILY"
      [] timeframe = "1week"  -> "TIME_SERIES_WEEKLY"
      [] timeframe = "1month" -> "TIME_SERIES_MONTHLY"
      [] OTHER                -> "undefined"

\* replies of the Alpha Vantage endpoint: a rejected fetch, a body that is
\* not JSON, a body with a 'Note', a body without the time series (an error
\* message), a body with the time series of the function asked for
HistoryReplies == {"network_error", "bad_body", "note", "no_series", "series"}

\* null, and the array of data points of a function
NoSeries == [function |-> "none", points |-> 0]

\* AlphaVantageAPI.getHistoricalData, lines 119-160: every failure is thrown
\* again as 'Historical data error'; there is no series for an undefined
\* function
AlphaVantageGetHistoricalData(timeframe, reply) ==
    IF reply = "series" /\ functionMap(timeframe) # "undefined"
    THEN [ok |-> TRUE, value |-> [function |-> functionMap(timeframe), points |-> 10]]
    ELSE [ok |-> FALSE, value |-> NoSeries]

\* a getStockHistory call awaiting the provider; net lists the providers
\* contacted, reply is history: what the endpoint answered
HistoryCall(symbol, timeframe) ==
    [pc |-> "alpha", symbol |-> symbol, timeframe |-> timeframe,
     outcome |-> "pending", value |-> NoSeries, net |-> <<"alpha_vantage">>,
     reply |-> "none"]

\* mutant: the provider's error reaches the caller
AfterHistoryRethrows(c, reply) ==
    LET r == AlphaVantageGetHistoricalData(c.timeframe, reply)
    IN  [c EXCEPT !.pc = "done", !.reply = reply, !.value = r.value,
                  !.outcome = IF r.ok THEN "returned" ELSE "raised"]

\* lines 68-75: the provider's result is returned, its error becomes null
AfterHistory(c, reply) ==
    LET r == AlphaVantageGetHistoricalData(c.timeframe, reply)
    IN  [c EXCEPT !.pc = "done", !.reply = reply, !.outcome = "returned",
                  !.value = IF r.ok THEN r.value ELSE NoSeries]

HistoryCalls == BagToSet(history)

GetStockHistory(symbol, timeframe) ==
    /\ BagCardinality(history) < MaxHistoryCalls
    /\ history' = history (+) SetToBag({HistoryCall(symbol, timeframe)})
    /\ UNCHANGED <<stockCache, lastFetchTime, stock, batch, llmVars, newsVars, now, ticks, pageVars>>

HistoryResponds(c, reply) ==
    /\ c \in HistoryCalls
    /\ c.pc = "alpha"
    /\ reply \in HistoryReplies
    /\ history' = (history (-) SetToBag({c})) (+) SetToBag({AfterHistory(c, reply)})
    /\ UNCHANGED <<stockCache, lastFetchTime, stock, batch, llmVars, newsVars, now, ticks, pageVars>>

\* the caller takes the settled promise
TakeHistory(c) ==
    /\ c \in HistoryCalls
    /\ c.pc = "done"
    /\ history' = history (-) SetToBag({c})
    /\ UNCHANGED <<stockCache, lastFetchTime, stock, batch, llmVars, newsVars, now, ticks, pageVars>>

InitStock ==
    /\ stockCache = [s \in Symbols |-> NoQuote]
    /\ lastFetchTime = [s \in Symbols |-> NoTime]
    /\ stock = EmptyBag
    /\ batch = NoBatch
    /\ history = EmptyBag

(***************************************************************************)
(* News providers and NewsDataClient.getNews                               *)
(***************************************************************************)
NEWS_CACHE_TTL == 300000

RATE_LIMIT_COOLDOWN == 6 * 60 * 60 * 1000

\* number of getNews calls that may be in flight at once
MaxNewsCalls == 2

\* the queries handed to getNews; the options are the same in every call, so
\* the cache key  news_<query>_<options>  is told by the query
Queries == {"AAPL"}

\* the articles each provider returns when it has any
NewsApiArticles == <<[title |-> "Apple rallies", source |-> "NewsAPI"]>>
CurrentsArticles == <<[title |-> "Apple rallies", source |-> "Currents"]>>
RssArticles == <<[title |-> "Apple in the news", source |-> "Google News"]>>

\* replies of the NewsAPI endpoint: articles, status ok without articles, a
\* throttling message, another error status, a rejected fetch, a body
\* without the articles array
NewsApiReplies ==
    {"articles", "no_articles", "rate_limited", "not_ok", "network_error", "malformed"}

\* the answers of the NewsAPI endpoint that are failures but no rate-limit
\* signal: an error status, a rejected fetch, a malformed body
TransientFailures == {"not_ok", "network_error", "malformed"}

\* how NewsAPIClient.getNews has ended: with articles, with none, with the
\* rate-limit branch (line 412) or with a failure turned into [] (419, 436)
PrimaryClass(reply) == IF reply \in TransientFailures THEN "failed" ELSE reply

\* NewsAPIClient.getNews lines 398-437: the articles returned, and whether
\* the reply starts the cooldown; every failure is caught and gives []
NewsAPIGetNews(reply) ==
    CASE reply = "articles"     -> [data |-> NewsApiArticles, limited |-> FALSE]
      [] reply = "rate_limited" -> [data |-> <<>>, limited |-> TRUE]
      [] OTHER                  -> [data |-> <<>>, limited |-> FALSE]

\* mutant: the cooldown still holds at the instant it ends
IsRateLimitedInclusive(until, t) == t <= until

\* NewsAPIClient.isRateLimited, and the guard of line 385
IsRateLimited(until, t) == t < until

\* replies of the Currents endpoint
CurrentsReplies == {"news", "not_ok", "network_error"}

\* CurrentNewsAPIClient.getNews: every failure is caught and gives []
CurrentsGetNews(reply) == IF reply = "news" THEN CurrentsArticles ELSE <<>>

\* replies of the rss2json proxy
RssReplies == {"items", "no_items", "not_ok", "network_error"}

\* getNewsFromGoogleRss: every failure gives []
GetNewsFromGoogleRss(reply) == IF reply = "items" THEN RssArticles ELSE <<>>

NoNews == [data |-> <<>>, timestamp |-> NoTime]

\* mutant: the stored result is never looked at
NewsCacheFreshNever(query, t) == FALSE

\* lines 248-252: a stored result younger than five minutes is served
NewsCacheFresh(query, t) ==
    /\ newsCache[query] # NoNews
    /\ t - newsCache[query].timestamp < NEWS_CACHE_TTL

\* a getNews call: pc is the provider being awaited, or "done"; outcome says
\* how its promise has settled; net lists the endpoints it has sent a request
\* to and primary is how its request to NewsAPI has ended; expired says
\* that the call began when a cooldown had been set and had run out
NewsCall(query) ==
    [pc |-> "primary", query |-> query, outcome |-> "pending", result |-> <<>>,
     net |-> <<"newsapi">>, primary |-> "none", fromCache |-> FALSE,
     expired |-> FALSE]

\* mutant: the RSS proxy is asked before Currents
AfterPrimaryRssFirst(c, data, until, t) ==
    IF data = <<>> /\ t < until
    THEN [c EXCEPT !.pc = "rss", !.net = Append(@, "rss2json")]
    ELSE [c EXCEPT !.pc = "done", !.outcome = "resolved", !.result = data]

\* lines 256-268 after the primary has given  data : an empty result of a
\* rate-limited primary goes on to Currents, anything else is stored and
\* returned
AfterPrimary(c, data, until, t) ==
    IF data = <<>> /\ IsRateLimited(until, t)
    THEN [c EXCEPT !.pc = "secondary", !.net = Append(@, "currents")]
    ELSE [c EXCEPT !.pc = "done", !.outcome = "resolved", !.result = data]

\* lines 246-255 and 382-387: up to the first await; within the cooldown
\* the primary answers [] without a request
GetNewsStart(query, t) ==
    IF NewsCacheFresh(query, t)
    THEN [NewsCall(query) EXCEPT !.pc = "done", !.outcome = "resolved",
                                 !.result = newsCache[query].data,
                                 !.net = <<>>, !.fromCache = TRUE]
    ELSE IF IsRateLimited(rateLimitedUntil, t)
         THEN AfterPrimary([NewsCall(query) EXCEPT !.net = <<>>], <<>>,
                           rateLimitedUntil, t)
         ELSE [NewsCall(query) EXCEPT !.expired = rateLimitedUntil > 0]

\* cache.set(cacheKey, { data, timestamp: Date.now() }) when the call has
\* finished with a result of the providers
NewsCacheAfter(c, t) ==
    IF c.pc = "done" /\ ~c.fromCache
    THEN [newsCache EXCEPT ![c.query] = [data |-> c.result, timestamp |-> t]]
    ELSE newsCache

NewsCalls == BagToSet(news)

GetNews(query) ==
    /\ BagCardinality(news) < MaxNewsCalls
    /\ news' = news (+) SetToBag({GetNewsStart(query, now)})
    /\ UNCHANGED <<newsCache, rateLimitedUntil, search, llmVars, stockVars, now, ticks, pageVars>>

\* the NewsAPI endpoint has answered
PrimaryResponds(c, reply) ==
    /\ c \in NewsCalls
    /\ c.pc = "primary"
    /\ rateLimitedUntil' = IF NewsAPIGetNews(reply).limited
                           THEN now + RATE_LIMIT_COOLDOWN
                           ELSE rateLimitedUntil
    /\ LET c2 == AfterPrimary([c EXCEPT !.primary = PrimaryClass(reply)],
                              NewsAPIGetNews(reply).data, rateLimitedUntil', now)
       IN  /\ news' = (news (-) SetToBag({c})) (+) SetToBag({c2})
           /\ newsCache' = NewsCacheAfter(c2, now)
    /\ UNCHANGED <<search, llmVars, stockVars, now, ticks, pageVars>>

\* lines 258-263: Currents has answered; a non-empty result is stored and
\* returned, otherwise the RSS proxy is asked
SecondaryResponds(c, reply) ==
    /\ c \in NewsCalls
    /\ c.pc = "secondary"
    /\ LET alt == CurrentsGetNews(reply)
           c2 == IF alt # <<>>
                 THEN [c EXCEPT !.pc = "done", !.outcome = "resolved",
                                !.result = alt]
                 ELSE [c EXCEPT !.pc = "rss", !.net = Append(@, "rss2json")]
       IN  /\ news' = (news (-) SetToBag({c})) (+) SetToBag({c2})
           /\ newsCache' = NewsCacheAfter(c2, now)
    /\ UNCHANGED <<rateLimitedUntil, search, llmVars, stockVars, now, ticks, pageVars>>

\* mutant: a failure of the RSS proxy is not caught and rejects the call
RssRespondsPropagates(c, reply) ==
    /\ c \in NewsCalls
    /\ c.pc = "rss"
    /\ LET c2 == IF GetNewsFromGoogleRss(reply) = <<>>
                 THEN [c EXCEPT !.pc = "done", !.outcome = "rejected"]
                 ELSE [c EXCEPT !.pc = "done", !.outcome = "resolved",
                                !.result = GetNewsFromGoogleRss(reply)]
       IN  /\ news' = (news (-) SetToBag({c})) (+) SetToBag({c2})
           /\ newsCache' = NewsCacheAfter(c2, now)
    /\ UNCHANGED <<rateLimitedUntil, search, llmVars, stockVars, now, ticks, pageVars>>

\* lines 263-265: the RSS proxy has answered; its result is stored and
\* returned, empty or not
RssResponds(c, reply) ==
    /\ c \in NewsCalls
    /\ c.pc = "rss"
    /\ LET c2 == [c EXCEPT !.pc = "done", !.outcome = "resolved",
                           !.result = GetNewsFromGoogleRss(reply)]
       IN  /\ news' = (news (-) SetToBag({c})) (+) SetToBag({c2})
           /\ newsCache' = NewsCacheAfter(c2, now)
    /\ UNCHANGED <<rateLimitedUntil, search, llmVars, stockVars, now, ticks, pageVars>>

\* the caller takes the settled promise
TakeNews(c) ==
    /\ c \in NewsCalls
    /\ c.pc = "done"
    /\ news' = news (-) SetToBag({c})
    /\ UNCHANGED <<newsCache, rateLimitedUntil, search, llmVars, stockVars, now, ticks, pageVars>>

(***************************************************************************)
(* NewsDataClient.searchForStockNews                                       *)
(***************************************************************************)
PAGE_SIZE == 10
SEARCH_LIMIT == 20

\* lines 289-295: the five query variants of a symbol
SearchQueries(symbol) ==
    <<symbol, symbol \o " stock", symbol \o " price", symbol \o " market",
      symbol \o " trading">>

\* a full page of articles for the i-th query, titles and dates of its own
Page(i) ==
    [j \in 1..PAGE_SIZE |->
        [title |-> "story " \o ToString(i) \o "-" \o ToString(j),
         publishedAt |-> 100 * i + j, source |-> "NewsAPI"]]

\* one story as NewsAPI and as Currents report it, the latter twice with a
\* different capital
StoryNewsApi ==
    <<[title |-> "Apple rallies", publishedAt |-> 950, source |-> "NewsAPI"]>>
StoryCurrents ==
    <<[title |-> "Apple rallies", publishedAt |-> 960, source |-> "Currents"],
      [title |-> "apple rallies", publishedAt |-> 340, source |-> "Currents"]>>

\* line 345: publishedAt of a feed item without pubDate is undefined
NoDate == -1

\* the feed fallback's report: one item published in the same instant as
\* NewsAPI's story under another title, and one item without pubDate
StoryRss ==
    <<[title |-> "Apple stock rallies", publishedAt |-> 950, source |-> "Google News"],
      [title |-> "Apple in the news", publishedAt |-> NoDate, source |-> "Google News"]>>

\* what  await this.getNews(query, ...)  of the i-th query can resolve with
SearchResults(i) == {<<>>, StoryNewsApi, StoryCurrents, StoryRss, Page(i)}

\* line 316: the comparator  new Date(b.publishedAt) - new Date(a.publishedAt)
\* is negative, that is a sorts before b; new Date(undefined) is an invalid
\* date and makes the difference NaN, which is not negative
ComparesBefore(a, b) ==
    /\ a.publishedAt # NoDate
    /\ b.publishedAt # NoDate
    /\ b.publishedAt - a.publishedAt < 0

\* Array.prototype.sort with the comparator of line 316: stable, latest
\* first; a NaN comparison counts as "equal" (SortCompare of ECMAScript)
RECURSIVE InsertByDate(_, _)
InsertByDate(sorted, a) ==
    IF sorted = <<>> THEN <<a>>
    ELSE IF ~ComparesBefore(a, Head(sorted))
         THEN <<Head(sorted)>> \o InsertByDate(Tail(sorted), a)
         ELSE <<a>> \o sorted

RECURSIVE SortByPublishedAt(_, _)
SortByPublishedAt(all, sorted) ==
    IF all = <<>> THEN sorted
    ELSE SortByPublishedAt(Tail(all), InsertByDate(sorted, Head(all)))

\* mutant: every article is kept
KeepAll(all, unique, seenTitles) == unique \o all

\* lines 317-322: forEach keeps the first article of every title
RECURSIVE UniqueArticles(_, _, _)
UniqueArticles(all, unique, seenTitles) ==
    IF all = <<>> THEN unique
    ELSE IF Head(all).title \in seenTitles
         THEN UniqueArticles(Tail(all), unique, seenTitles)
         ELSE UniqueArticles(Tail(all), Append(unique, Head(all)),
                             seenTitles \cup {Head(all).title})

\* Array.prototype.slice(0, n)
Slice(a, n) == SubSeq(a, 1, IF Len(a) < n THEN Len(a) ELSE n)

\* lines 311-324: what searchForStockNews returns for the collected results
SearchReturn(allResults) ==
    Slice(UniqueArticles(SortByPublishedAt(allResults, <<>>), <<>>, {}),
          SEARCH_LIMIT)

\* issued, answered and empty are history: the queries handed to getNews so
\* far, the number of them that settled, and which of them brought nothing
NoSearch == [pc |-> "idle", symbol |-> "none", i |-> 0, allResults |-> <<>>,
             result |-> <<>>, issued |-> <<>>, answered |-> 0, empty |-> {}]

\* mutant: the five queries are sent at once
SearchForStockNewsAllAtOnce(symbol) ==
    /\ search.pc = "idle"
    /\ search' = [NoSearch EXCEPT !.pc = "running", !.symbol = symbol, !.i = 1,
                                  !.issued = SearchQueries(symbol)]
    /\ UNCHANGED <<newsCache, rateLimitedUntil, news, llmVars, stockVars, now, ticks, pageVars>>

\* lines 288-301: up to the first  await this.getNews
SearchForStockNews(symbol) ==
    /\ search.pc = "idle"
    /\ search' = [NoSearch EXCEPT !.pc = "running", !.symbol = symbol, !.i = 1,
                                  !.issued = <<SearchQueries(symbol)[1]>>]
    /\ UNCHANGED <<newsCache, rateLimitedUntil, news, llmVars, stockVars, now, ticks, pageVars>>

\* lines 301-324: the awaited getNews resolves; its articles are appended
\* and the next query is sent, or after the last one the result is built
SearchGetNewsResolves(results) ==
    /\ search.pc = "running"
    /\ results \in SearchResults(search.i)
    /\ LET all == search.allResults \o results
           settled == [search EXCEPT
                         !.allResults = all,
                         !.answered = @ + 1,
                         !.empty = IF results = <<>> THEN @ \cup {search.i} ELSE @]
       IN  search' =
             IF search.i < Len(SearchQueries(search.symbol))
             THEN [settled EXCEPT
                     !.i = @ + 1,
                     !.issued = Append(@, SearchQueries(search.symbol)[search.i + 1])]
             ELSE [settled EXCEPT !.pc = "done", !.result = SearchReturn(all)]
    /\ UNCHANGED <<newsCache, rateLimitedUntil, news, llmVars, stockVars, now, ticks, pageVars>>

\* the caller takes the result
SearchTake ==
    /\ search.pc = "done"
    /\ search' = NoSearch
    /\ UNCHANGED <<newsCache, rateLimitedUntil, news, llmVars, stockVars, now, ticks, pageVars>>

(***************************************************************************)
(* AgenticContentScript: suggestTaskCreation and safeSendMessage           *)
(***************************************************************************)
\* number of safeSendMessage promises that may be alive at once
MaxMessages == 2

\* chrome.runtime: usable; without an id (the extension context is gone);
\* or with an id while sendMessage throws
Runtimes == {"valid", "missing", "throws"}

\* the symbols scanForTaskOpportunities finds in the text of the page
PageSymbols == {{}, {"AAPL"}, {"AAPL", "MSFT"}}

\* the records of one MutationObserver callback: for each mutation record
\* whether it has added nodes
MutationBatches ==
    {<<a>> : a \in BOOLEAN} \cup {<<a, b>> : a \in BOOLEAN, b \in BOOLEAN}

\* safeSendMessage: the promise it returns; without a runtime id, or when
\* sendMessage throws, it is resolved with false before the function
\* returns, otherwise it is resolved with true by the callback of
\* sendMessage; after tells how the earlier SAVE_DETECTED_CONTEXT sends had
\* settled
safeSendMessage(type, payload) ==
    [type |-> type, payload |-> payload, how |-> runtime, after |-> settles,
     pc |-> IF runtime = "valid" THEN "sent" ELSE "settled",
     value |-> IF runtime = "valid" THEN "pending" ELSE "false"]

\* mutant: a detection is sent whether or not one is outstanding
suggestTaskCreationUnguarded(st, symbols) ==
    [waiting |-> TRUE,
     out |-> st.out (+) SetToBag({safeSendMessage("SAVE_DETECTED_CONTEXT", symbols)})]

\* suggestTaskCreation up to the return of safeSendMessage; st is the
\* script's state, its flag and the promises alive
suggestTaskCreation(st, symbols) ==
    IF st.waiting THEN st
    ELSE [waiting |-> TRUE,
          out |-> st.out (+) SetToBag({safeSendMessage("SAVE_DETECTED_CONTEXT", symbols)})]

\* scanForTaskOpportunities line 51
scanForTaskOpportunities(st, symbols) ==
    IF symbols # {} THEN suggestTaskCreation(st, symbols) ELSE st

\* the MutationObserver callback of injectTaskParser: one scan for each
\* mutation record that has added nodes, all in one run
RECURSIVE injectTaskParser(_, _, _)
injectTaskParser(st, mutations, symbols) ==
    IF mutations = <<>> THEN st
    ELSE injectTaskParser(IF Head(mutations)
                          THEN scanForTaskOpportunities(st, symbols) ELSE st,
                          Tail(mutations), symbols)

Messages == BagToSet(outbox)

\* the extension is reloaded, removed or comes back
RuntimeChanges(r) ==
    /\ r # runtime
    /\ runtime' = r
    /\ UNCHANGED <<waitingForResponse, outbox, settles,
                   llmVars, stockVars, newsVars, now, ticks>>

\* the page's DOM changed and the observer's callback runs
MutationObserved(mutations, symbols) ==
    /\ BagCardinality(outbox) < MaxMessages
    /\ LET st == injectTaskParser([waiting |-> waitingForResponse, out |-> outbox],
                                  mutations, symbols)
       IN  /\ waitingForResponse' = st.waiting
           /\ outbox' = st.out
    /\ UNCHANGED <<runtime, settles, llmVars, stockVars, newsVars, now, ticks>>

\* evaluateSelectionForTracking: a selection of interest is reported, with
\* no look at waitingForResponse
evaluateSelectionForTracking(symbols) ==
    /\ BagCardinality(outbox) < MaxMessages
    /\ symbols # {}
    /\ outbox' = outbox (+) SetToBag({safeSendMessage("SELECTION_INTEREST_DETECTED",
                                                      symbols)})
    /\ UNCHANGED <<waitingForResponse, runtime, settles,
                   llmVars, stockVars, newsVars, now, ticks>>

\* the callback handed to sendMessage runs, with a reply or with lastError
SendMessageCallback(m) ==
    /\ m \in Messages
    /\ m.pc = "sent"
    /\ outbox' = (outbox (-) SetToBag({m}))
                    (+) SetToBag({[m EXCEPT !.pc = "settled", !.value = "true"]})
    /\ UNCHANGED <<waitingForResponse, runtime, settles,
                   llmVars, stockVars, newsVars, now, ticks>>

\* the reaction to the resolved promise runs: the finally of
\* suggestTaskCreation clears the flag; the other senders do nothing
PromiseSettled(m) ==
    /\ m \in Messages
    /\ m.pc = "settled"
    /\ outbox' = outbox (-) SetToBag({m})
    /\ IF m.type = "SAVE_DETECTED_CONTEXT"
       THEN /\ waitingForResponse' = FALSE
            /\ settles' = settles \cup {m.how}
       ELSE UNCHANGED <<waitingForResponse, settles>>
    /\ UNCHANGED <<runtime, llmVars, stockVars, newsVars, now, ticks>>

InitPage ==
    /\ waitingForResponse = FALSE
    /\ runtime = "valid"
    /\ outbox = EmptyBag
    /\ settles = {}

NextContent ==
    \/ \E r \in Runtimes : RuntimeChanges(r)
    \/ \E ms \in MutationBatches, s \in PageSymbols : MutationObserved(ms, s)
    \/ \E s \in PageSymbols : evaluateSelectionForTracking(s)
    \/ \E m \in Messages : SendMessageCallback(m)
    \/ \E m \in Messages : PromiseSettled(m)

InitNews ==
    /\ newsCache = [q \in Queries |-> NoNews]
    /\ rateLimitedUntil = 0
    /\ news = EmptyBag
    /\ search = NoSearch

InitLLM ==
    /\ apiKey = Null
    /\ baseUrl = DefaultBaseUrl
    /\ model = DefaultModel
    /\ failureCount = 0
    /\ remoteDisabled = FALSE
    /\ llmCache = <<>>
    /\ settings = NoSettings
    /\ llm = EmptyBag
    /\ tripped = FALSE
    /\ scored = NoScore

Init ==
    /\ InitLLM
    /\ InitStock
    /\ InitNews
    /\ InitPage
    /\ now = 0
    /\ ticks = 0

\* inputs of the cached operations in the gateway specification
GatewayInputs == {"q1"}
\* replies of the endpoint in the gateway specification
GatewayReplies == {"json"}

NextLLM ==
    \/ Initialize
    \/ \E k \in KeyInputs : UpdateConfig(k, Null, Null)
    \/ HealthNoKey
    \/ \E op \in CachedOps, i \in GatewayInputs : CacheHit(op, i)
    \/ \E op \in GatewayOps, i \in GatewayInputs : StartOp(op, i)
    \/ \E c \in Calls, o \in RemoteFailures : RespondFail(c, o)
    \/ \E c \in Calls, o \in GatewayReplies : RespondOk(c, o)
    \/ \E c \in Calls : Continue(c)

vars == <<llmVars, stockVars, newsVars, pageVars, now, ticks>>

SpecLLM == Init /\ [][NextLLM]_vars

SpecContent == Init /\ [][NextContent]_vars

\* inputs and endpoint failures of the result-cache specification: two
\* inputs for each cached operation give more keys than the cache holds
CacheInputs == {"q1", "q2"}
CacheFailures == {"http500"}

NextCache ==
    \/ \E k \in KeyInputs : UpdateConfig(k, Null, Null)
    \/ \E op \in CachedOps, i \in CacheInputs : CacheHit(op, i)
    \/ \E op \in CachedOps, i \in CacheInputs : StartOp(op, i)
    \/ \E c \in Calls, o \in CacheFailures : RespondFail(c, o)
    \/ \E c \in Calls, o \in GatewayReplies : RespondOk(c, o)
    \/ \E c \in Calls : Continue(c)

SpecCache == Init /\ [][NextCache]_vars

\* the cache-hit specification: one input, and a clock that advances by a
\* day between a put and a hit
DAY_MS == 24 * 60 * 60 * 1000

NextHit ==
    \/ \E k \in KeyInputs : UpdateConfig(k, Null, Null)
    \/ \E op \in CachedOps, i \in GatewayInputs : CacheHit(op, i)
    \/ \E op \in CachedOps, i \in GatewayInputs : StartOp(op, i)
    \/ \E c \in Calls, o \in CacheFailures : RespondFail(c, o)
    \/ \E c \in Calls, o \in GatewayReplies : RespondOk(c, o)
    \/ \E c \in Calls : Continue(c)
    \/ Tick(DAY_MS)

SpecHit == Init /\ [][NextHit]_vars

\* the reply-decoding specification: every kind of 2xx reply, no failure
NextReplies ==
    \/ \E k \in KeyInputs : UpdateConfig(k, Null, Null)
    \/ \E op \in GatewayOps, i \in GatewayInputs : StartOp(op, i)
    \/ \E c \in Calls, o \in RemoteReplies : RespondOk(c, o)
    \/ \E c \in Calls : Continue(c)

SpecReplies == Init /\ [][NextReplies]_vars

\* the outcome specification: one operation for each of the five
\* promptTypes, and every answer of the endpoint
PromptOps ==
    {"processTaskInput", "analyzeConditionResults", "interpretMarketData",
     "generateNotificationContent", "decideNextAction"}

NextOutcomes ==
    \/ \E k \in KeyInputs : UpdateConfig(k, Null, Null)
    \/ \E op \in PromptOps, i \in GatewayInputs : StartOp(op, i)
    \/ \E c \in Calls, o \in RemoteFailures : RespondFail(c, o)
    \/ \E c \in Calls, o \in RemoteReplies : RespondOk(c, o)
    \/ \E c \in Calls : Continue(c)

SpecOutcomes == Init /\ [][NextOutcomes]_vars

\* the scoring specification: the clock steps reach ages just under and
\* exactly at five minutes
ScoreSteps == {FRESH_MS - 1, 1}

NextScore ==
    \/ \E data \in ScoreInputs : CalculateConfidenceScore(data)
    \/ \E d \in ScoreSteps : Tick(d)

SpecScore == Init /\ [][NextScore]_vars

NextSearch ==
    \/ \E q \in Queries : SearchForStockNews(q)
    \/ \E i \in 1..5 : \E r \in SearchResults(i) : SearchGetNewsResolves(r)
    \/ SearchTake

SpecSearch == Init /\ [][NextSearch]_vars

\* the clock step of the stock specifications: half the quote TTL
StockStep == CACHE_DURATION \div 2

\* replies of the endpoints in the stock specification: one failure and
\* every success of each provider
StockAlphaReplies == {"note", "quote"}
StockYahooReplies == {r \in YahooReplies : r.kind \in {"no_chart", "chart"}}
StockFinnhubReplies == {"error", "quote"}

NextStock ==
    \/ \E s \in Symbols : GetStockPrice(s)
    \/ \E c \in StockCalls, r \in StockAlphaReplies : AlphaResponds(c, r)
    \/ \E c \in StockCalls, r \in StockYahooReplies, fh \in StockFinnhubReplies :
          YahooResponds(c, r, fh)
    \/ \E c \in StockCalls : TakeStock(c)
    \/ Tick(StockStep)

SpecStock == Init /\ [][NextStock]_vars

\* replies of the endpoints in the batch specification: one failure and
\* every success of each provider
BatchAlphaReplies == {"note", "quote"}
BatchYahooReplies == {r \in YahooReplies : r.kind \in {"no_chart", "chart"}}
BatchFinnhubReplies == {"quote"}

NextBatch ==
    \/ \E l \in SymbolLists : BatchStart(l)
    \/ \E i \in 1..MaxBatch, r \in BatchAlphaReplies : BatchAlphaResponds(i, r)
    \/ \E i \in 1..MaxBatch, r \in BatchYahooReplies, fh \in BatchFinnhubReplies :
          BatchYahooResponds(i, r, fh)
    \/ BatchFinish
    \/ BatchTake
    \/ Tick(StockStep)

SpecBatch == Init /\ [][NextBatch]_vars

NextHistory ==
    \/ \E s \in Symbols, tf \in Timeframes : GetStockHistory(s, tf)
    \/ \E c \in HistoryCalls, r \in HistoryReplies : HistoryResponds(c, r)
    \/ \E c \in HistoryCalls : TakeHistory(c)

SpecHistory == Init /\ [][NextHistory]_vars

\* the clock steps of the news specification: half the cache TTL, and the
\* whole cooldown
NewsSteps == {NEWS_CACHE_TTL \div 2, RATE_LIMIT_COOLDOWN}

\* replies of the fallback endpoints in the news specification: the success
\* and one failure of each (every failure of theirs gives [] alike)
NewsCurrentsReplies == {"news", "network_error"}
NewsRssReplies == {"items", "network_error"}

NextNews ==
    \/ \E q \in Queries : GetNews(q)
    \/ \E c \in NewsCalls, r \in NewsApiReplies : PrimaryResponds(c, r)
    \/ \E c \in NewsCalls, r \in NewsCurrentsReplies : SecondaryResponds(c, r)
    \/ \E c \in NewsCalls, r \in NewsRssReplies : RssResponds(c, r)
    \/ \E c \in NewsCalls : TakeNews(c)
    \/ \E d \in NewsSteps : Tick(d)

SpecNews == Init /\ [][NextNews]_vars

(***************************************************************************)
(* Claims about the LLM gateway                                            *)
(***************************************************************************)
GatewayCalls == {c \in Calls : c.via = "makeLLMCall"}

\* C1: once a remote call of makeLLMCall has failed (any failure kind),
\* remoteDisabled is true, and every makeLLMCall started after that failure,
\* also one started with an API key present, issues no remote request and
\* resolves with the fallback routine's result for its promptType.
C1_BreakerTrip ==
    /\ tripped => remoteDisabled
    /\ \A c \in GatewayCalls :
          c.startTripped =>
             /\ ~c.remote
             /\ c.pc = "resolved"
             /\ c.result = fallbackProcessing(PromptTypeOf(c.op))

\* C1 witness: after a failure, a call that started with a key present has
\* resolved
C1_Witness ==
    \E c \in GatewayCalls :
        c.startTripped /\ ~Falsy(c.startKey) /\ c.pc = "resolved"

\* C2 (as claimed): an updateConfig made while the circuit is disabled
\* resets remoteDisabled to false and failureCount to 0.
C2_UpdateConfigReenables ==
    [][\A k \in KeyInputs :
          (remoteDisabled /\ UpdateConfig(k, Null, Null))
             => (remoteDisabled' = FALSE /\ failureCount' = 0)]_vars

\* C3: once remoteDisabled is true it stays true over every step that is
\* not a configuration update (initialize, healthCheck, every gateway
\* operation, every reply of the endpoint).
C3_BreakerIrreversible ==
    [][(remoteDisabled /\ ~(\E k \in KeyInputs : UpdateConfig(k, Null, Null)))
          => remoteDisabled']_vars

\* C3 witness: the circuit is disabled, initialize has run, and a healthCheck
\* that started on the disabled circuit is resolved
C3_Witness ==
    /\ remoteDisabled
    /\ baseUrl = CONFIG.LLM.baseUrl
    /\ \E c \in GatewayCalls :
          c.op = "healthCheck" /\ c.startDisabled /\ c.pc = "resolved"

(***************************************************************************)
(* Claims about StockDataClient.getStockPrice                              *)
(***************************************************************************)
\* C4 (as claimed): a getStockPrice call whose first two providers failed
\* while the Finnhub endpoint would have answered a quote returns Finnhub's
\* quote and raises nothing.
C4_ThirdProviderReached ==
    \A c \in StockCalls :
        (c.pc = "done" /\ Len(c.errors) = 2
           /\ FinnhubGetStockData(c.symbol, c.finnhub).ok)
        => /\ c.outcome = "returned"
           /\ c.value = FinnhubGetStockData(c.symbol, c.finnhub).value

C6_RaisesNamingSymbol ==
    \A c \in StockCalls :
        (c.pc = "done" /\ c.net # <<>> /\ Len(c.errors) = Len(c.net))
        => /\ c.outcome = "raised"
           /\ c.value = NoQuote
           /\ c.error.tag = "Unable to fetch data for"
           /\ c.error.detail = c.symbol

\* C6 witness: for every symbol a call has raised
C6_Witness ==
    \A s \in Symbols :
        \E c \in StockCalls : c.symbol = s /\ c.outcome = "raised"

\* C9: a step in which a getStockPrice call raises (every provider it tried
\* has failed) leaves cache and lastFetchTime as they were; the two maps
\* change only in a step in which a call returns the answer of a provider;
\* and a getStockPrice started while no fresh success is cached for its
\* symbol sends its first request to the primary provider.
C9_StockFailuresNotCached ==
    [][/\ \A c \in BagToSet(stock') :
            (CopiesIn(c, stock') > CopiesIn(c, stock) /\ c.outcome = "raised")
               => UNCHANGED <<stockCache, lastFetchTime>>
       /\ (stockCache' # stockCache \/ lastFetchTime' # lastFetchTime)
            => \E c \in BagToSet(stock') :
                  /\ CopiesIn(c, stock') > CopiesIn(c, stock)
                  /\ c.outcome = "returned"
                  /\ Len(c.errors) < Len(c.net)
       /\ \A s \in Symbols :
            (GetStockPrice(s) /\ ~CacheFresh(s, now))
               => \E c \in BagToSet(stock') :
                     /\ CopiesIn(c, stock') > CopiesIn(c, stock)
                     /\ c.symbol = s
                     /\ c.pc = "alpha"
                     /\ c.net = <<"alpha_vantage">>]_vars

\* C9 witness: after a call for a symbol has raised, with nothing cached
\* for the symbol, a call for it that started later awaits the primary
C9_Witness ==
    \E c1 \in StockCalls, c2 \in StockCalls :
        /\ c1.outcome = "raised"
        /\ c2.symbol = c1.symbol
        /\ c2.now > c1.now
        /\ c2.pc = "alpha"
        /\ stockCache[c1.symbol] = NoQuote

(***************************************************************************)
(* Claims about StockDataClient.getMultipleStockPrices                     *)
(***************************************************************************)
Requested == {batch.symbols[i] : i \in 1..Len(batch.symbols)}

\* C7 (as claimed): in the map getMultipleStockPrices returns, a symbol A
\* whose fetch succeeded maps to its quote and another symbol B whose fetch
\* failed maps to the marker {symbol, error}.
C7_PartialFailure ==
    batch.pc = "done" =>
       \A i \in 1..Len(batch.calls), j \in 1..Len(batch.calls) :
          ( /\ batch.calls[i].outcome = "returned"
            /\ batch.calls[j].outcome = "raised"
            /\ batch.symbols[i] # batch.symbols[j] )
          => /\ batch.symbols[i] \in DOMAIN batch.data
             /\ batch.data[batch.symbols[i]].quote = batch.calls[i].value
             /\ batch.data[batch.symbols[i]].error = NoError
             /\ batch.symbols[j] \in DOMAIN batch.data
             /\ batch.data[batch.symbols[j]] = Settled(batch.calls[j])

\* C8 (as claimed): the key set of the map getMultipleStockPrices returns
\* is the set of requested symbols.
C8_KeySetIsRequested ==
    batch.pc = "done" => DOMAIN batch.data = Requested

(***************************************************************************)
(* Claims about NewsDataClient.getNews                                     *)
(***************************************************************************)
\* C10 (as claimed): getNews never serves a stored empty result: a call
\* answered from the cache without any request returns articles.
C10_NewsFailuresNotCached ==
    \A c \in NewsCalls :
        (c.pc = "done" /\ c.fromCache) => c.result # <<>>

\* the article sequences a getNews call can resolve with
ArticleLists == {<<>>, NewsApiArticles, CurrentsArticles, RssArticles}

\* C11: every getNews call that has settled has resolved, never rejected,
\* and its value is a sequence of articles, at worst the empty one;
\* whatever the providers answered and whatever the cache held.
C11_GetNewsNeverRejects ==
    \A c \in NewsCalls :
        /\ c.outcome # "rejected"
        /\ c.pc = "done" => (c.outcome = "resolved" /\ c.result \in ArticleLists)

\* C11 witness: a call has settled with nothing after the primary was rate
\* limited and neither the secondary nor the RSS proxy gave an article
C11_Witness ==
    \E c \in NewsCalls :
        /\ c.pc = "done"
        /\ c.primary = "rate_limited"
        /\ c.net = <<"newsapi", "currents", "rss2json">>
        /\ c.result = <<>>

\* C12 (as claimed): a getNews call whose primary request failed without a
\* rate-limit signal has gone on to the secondary provider, and to the RSS
\* provider when the secondary gave nothing, before it settles.
C12_TransientPrimaryFallsBack ==
    \A c \in NewsCalls :
        (c.pc = "done" /\ c.primary = "failed")
        => /\ Len(c.net) >= 2
           /\ c.net[2] = "currents"
           /\ c.result = <<>> => c.net = <<"newsapi", "currents", "rss2json">>

\* the last endpoint a call has sent a request to
LastContacted(c) == IF c.net = <<>> THEN "none" ELSE c.net[Len(c.net)]

\* the order of the requests of every call: a call whose primary answered a
\* rate-limit signal contacts Currents next; the RSS proxy is only ever
\* contacted right after Currents; a call that settles on the answer of
\* Currents returns Currents' non-empty articles, and one that settles on the
\* answer of the RSS proxy returns what the proxy gave
RateLimitedOrder ==
    \A c \in NewsCalls :
        /\ c.primary = "rate_limited" => (Len(c.net) >= 2 /\ c.net[2] = "currents")
        /\ \A i \in 1..Len(c.net) :
              c.net[i] = "rss2json" => (i > 1 /\ c.net[i - 1] = "currents")
        /\ (c.pc = "done" /\ LastContacted(c) = "currents")
              => c.result = CurrentsArticles
        /\ (c.pc = "done" /\ LastContacted(c) = "rss2json")
              => c.result \in {RssArticles, <<>>}

\* when Currents answers a call, non-empty articles settle the call with
\* them and without a request to the RSS proxy; only an empty answer sends
\* the call on to the RSS proxy
SecondaryThenRss ==
    [][\A c \in NewsCalls, r \in CurrentsReplies :
          SecondaryResponds(c, r) =>
             \E c2 \in BagToSet(news') :
                /\ CopiesIn(c2, news') > CopiesIn(c2, news)
                /\ IF CurrentsGetNews(r) # <<>>
                   THEN /\ c2.pc = "done"
                        /\ c2.result = CurrentsGetNews(r)
                        /\ c2.net = c.net
                        /\ LastContacted(c2) = "currents"
                   ELSE /\ c2.pc = "rss"
                        /\ c2.net = Append(c.net, "rss2json")]_vars

\* C13: when the primary gave nothing and reports itself rate limited,
\* getNews contacts the secondary next and returns its articles if there are
\* any; only when the secondary gave nothing does it contact the RSS proxy
\* and return that result; the RSS proxy is never contacted before the
\* secondary in a call.
C13_RateLimitedFallbackOrder == []RateLimitedOrder /\ SecondaryThenRss

\* C13 witness: the primary was rate limited; one call has returned the
\* articles of Currents, another, started within the cooldown, those of the
\* RSS proxy
C13_Witness ==
    \E c1 \in NewsCalls, c2 \in NewsCalls :
        /\ c1.pc = "done" /\ c1.primary = "rate_limited"
        /\ c1.net = <<"newsapi", "currents">> /\ c1.result = CurrentsArticles
        /\ c2.pc = "done"
        /\ c2.net = <<"currents", "rss2json">> /\ c2.result = RssArticles

\* C14: a rate-limit signal of the primary sets the cooldown to end 6 hours
\* later and nothing else moves it; a getNews call that reaches the primary
\* before that instant gets the empty result without a request to NewsAPI
\* (its first request goes to Currents), and one that reaches it at or after
\* that instant sends a request to NewsAPI.
C14_Cooldown ==
    [][/\ \A c \in NewsCalls :
            PrimaryResponds(c, "rate_limited")
               => rateLimitedUntil' = now + 6 * 60 * 60 * 1000
       /\ rateLimitedUntil' # rateLimitedUntil
            => /\ rateLimitedUntil' = now + 6 * 60 * 60 * 1000
               /\ \E c \in NewsCalls : PrimaryResponds(c, "rate_limited")
       /\ \A q \in Queries :
            (GetNews(q) /\ ~NewsCacheFresh(q, now))
               => \E c \in BagToSet(news') :
                     /\ CopiesIn(c, news') > CopiesIn(c, news)
                     /\ c.net # <<>>
                     /\ IF now < rateLimitedUntil
                        THEN c.net[1] = "currents" /\ c.primary = "none"
                        ELSE c.net = <<"newsapi">> /\ c.pc = "primary"]_vars

\* C14 witness: a cooldown was set; one call that began within it has sent
\* its first request to Currents, and after the 6 hours another call has
\* sent a request to NewsAPI
C14_Witness ==
    /\ rateLimitedUntil > 0
    /\ now >= rateLimitedUntil
    /\ \E c1 \in NewsCalls, c2 \in NewsCalls :
          /\ c1.net # <<>> /\ c1.net[1] = "currents"
          /\ c2.expired /\ c2.net = <<"newsapi">>

\* C19: a getNews call made less than 5 minutes after a result was stored
\* for its query and options resolves with exactly the stored result, sends
\* no request to any provider and leaves the stored entry as it is.
C19_NewsCacheHit ==
    [][\A q \in Queries :
          ( /\ GetNews(q)
            /\ newsCache[q] # NoNews
            /\ now - newsCache[q].timestamp < 300000 )
          => /\ newsCache' = newsCache
             /\ \E c \in BagToSet(news') :
                   /\ CopiesIn(c, news') > CopiesIn(c, news)
                   /\ c.query = q
                   /\ c.pc = "done" /\ c.outcome = "resolved"
                   /\ c.result = newsCache[q].data
                   /\ c.net = <<>>]_vars

\* C19 witness: a call has been served articles stored some time before,
\* less than 5 minutes ago
C19_Witness ==
    \E c \in NewsCalls :
        /\ c.pc = "done" /\ c.fromCache /\ c.net = <<>>
        /\ c.result # <<>>
        /\ c.result = newsCache[c.query].data
        /\ now - newsCache[c.query].timestamp > 0
        /\ now - newsCache[c.query].timestamp < 300000

(***************************************************************************)
(* Claims about the LLM result cache                                       *)
(***************************************************************************)
\* the keys of the Map in insertion order
KeysOf(c) == [i \in 1..Len(c) |-> c[i].key]

\* a call was served from the cache under a key that the cache no longer
\* holds: the key has been evicted since
Evicted(c) ==
    c.via = "cache" /\ ~CacheHas(llmCache, CacheKeyOf(c.op, c.input))

\* C15: the LLM cache never holds more than maxCacheSize entries, whatever
\* processTaskInput and analyzeConditionResults calls have run, one after
\* the other or interleaved.
C15_CacheBound == Len(llmCache) <= maxCacheSize

\* C15 witness: the cache is full after an eviction
C15_Witness ==
    /\ Len(llmCache) = maxCacheSize
    /\ \E c \in Calls : Evicted(c)

\* C16: in every step the keys of the cache stay as they are, or gain one
\* new last key, or lose exactly their first (earliest-inserted) key, the
\* rest keeping its order, with or without a new last key; and the first
\* key is lost only by a put into a full cache.
C16_InsertionOrderEviction ==
    [][LET K == KeysOf(llmCache)
           K2 == KeysOf(llmCache')
       IN  \/ K2 = K
           \/ Len(K2) = Len(K) + 1 /\ SubSeq(K2, 1, Len(K)) = K
           \/ /\ Len(K) >= maxCacheSize
              /\ \/ K2 = Tail(K)
                 \/ /\ Len(K2) = Len(K)
                    /\ SubSeq(K2, 1, Len(K) - 1) = Tail(K)]_vars

\* C16 witness: of two keys that were served from the cache, the earlier
\* one has been evicted and the later one is now the first key
C16_Witness ==
    \E c1 \in Calls, c2 \in Calls :
        /\ Evicted(c1)
        /\ c2.via = "cache"
        /\ llmCache # <<>>
        /\ llmCache[1].key = CacheKeyOf(c2.op, c2.input)

(***************************************************************************)
(* Claims about the caches of the data clients                             *)
(***************************************************************************)
\* the keys the stock cache holds
StockKeys == {s \in Symbols : stockCache[s] # NoQuote}

\* C17 (as claimed), for a maxSize one below the number of distinct symbols
\* requested: the stock cache never holds more than maxSize entries.
C17_StockCacheBounded == Cardinality(StockKeys) <= Cardinality(Symbols) - 1

\* C18 (as claimed): a getStockPrice call made when a quote is stored for
\* its symbol and now - storedAt <= 60000 returns the stored quote without
\* a request to any provider; an entry aged exactly the TTL is still a hit.
C18_TtlBoundaryInclusive ==
    [][\A s \in Symbols :
          ( /\ GetStockPrice(s)
            /\ stockCache[s] # NoQuote
            /\ now - lastFetchTime[s] <= 60000 )
          => \E c \in BagToSet(stock') :
                /\ CopiesIn(c, stock') > CopiesIn(c, stock)
                /\ c.symbol = s
                /\ c.pc = "done" /\ c.outcome = "returned"
                /\ c.value = stockCache[s]
                /\ c.net = <<>>]_vars

(***************************************************************************)
(* Claims about NewsDataClient.searchForStockNews                          *)
(***************************************************************************)
\* C20: the sequence searchForStockNews returns holds no two articles with
\* the same title string and at most 20 articles, whatever the getNews
\* calls of the five query variants resolved with.
C20_SearchUniqueAndLimited ==
    search.pc = "done" =>
       /\ Len(search.result) <= 20
       /\ \A i \in 1..Len(search.result), j \in 1..Len(search.result) :
             i # j => search.result[i].title # search.result[j].title

\* C20 witness: more than 20 articles were collected, among them one title
\* from two providers, and 20 were returned
C20_Witness ==
    /\ search.pc = "done"
    /\ Len(search.allResults) > 20
    /\ Len(search.result) = 20
    /\ \E i \in 1..Len(search.allResults), j \in 1..Len(search.allResults) :
          /\ search.allResults[i].title = search.allResults[j].title
          /\ search.allResults[i].source # search.allResults[j].source
          /\ \E k \in 1..Len(search.result) :
                search.result[k].title = search.allResults[i].title

\* C21: the articles searchForStockNews returns are in strictly descending
\* order of publishedAt: every article but the last was published strictly
\* later than the article that follows it, whatever the providers returned.
C21_StrictlyDescending ==
    search.pc = "done" =>
       \A k \in 1..(Len(search.result) - 1) :
          /\ search.result[k].publishedAt # NoDate
          /\ search.result[k + 1].publishedAt # NoDate
          /\ search.result[k].publishedAt > search.result[k + 1].publishedAt

\* C22: the query variants are handed to getNews in the order of the list,
\* one at a time (the next only after the previous settled), and a variant
\* that brings nothing does not keep the later ones from being sent: when
\* the search returns, all five were sent and settled.
C22_SequentialQueries ==
    search.pc # "idle" =>
       /\ Len(search.issued) <= Len(SearchQueries(search.symbol))
       /\ search.issued = SubSeq(SearchQueries(search.symbol), 1, Len(search.issued))
       /\ Len(search.issued) - search.answered \in {0, 1}
       /\ search.pc = "running" => Len(search.issued) - search.answered = 1
       /\ search.pc = "done" =>
             /\ search.issued = SearchQueries(search.symbol)
             /\ search.answered = Len(search.issued)

\* C22 witness: the search returned although its first, third and last
\* variant brought nothing, with what the second and fourth brought
C22_Witness ==
    /\ search.pc = "done"
    /\ search.empty = {1, 3, 5}
    /\ search.issued = SearchQueries(search.symbol)
    /\ Len(search.result) > PAGE_SIZE

(***************************************************************************)
(* Claims about makeLLMCall, parseLLMResponse and the scoring              *)
(***************************************************************************)
\* C23: makeLLMCall sends a request only if, when the call started, an API
\* key was configured and the circuit was enabled; a call that started
\* without a key or on a disabled circuit sends nothing and is resolved at
\* once with the fallback routine's result for its promptType.
C23_RemoteCallGating ==
    \A c \in GatewayCalls :
       /\ c.remote => (~Falsy(c.startKey) /\ ~c.startDisabled)
       /\ (Falsy(c.startKey) \/ c.startDisabled) =>
             /\ ~c.remote
             /\ c.pc = "resolved"
             /\ c.result = fallbackProcessing(PromptTypeOf(c.op))

\* C23 witness: a request is out for a call that started with a key on the
\* enabled circuit, and another call that started with a key on the
\* disabled circuit has the fallback result
C23_Witness ==
    \E c1 \in GatewayCalls, c2 \in GatewayCalls :
       /\ c1.remote /\ c1.pc = "fetch" /\ ~Falsy(c1.startKey) /\ ~c1.startDisabled
       /\ ~c2.remote /\ ~Falsy(c2.startKey) /\ c2.startDisabled
       /\ c2.result = fallbackProcessing(PromptTypeOf(c2.op))

\* C24 (as claimed): a reply whose content is not valid JSON is resolved to
\* the wrapper of the raw text with parsed = false.
C24_NonJsonWrapperParsedFalse ==
    \A c \in GatewayCalls :
       (c.remote /\ c.pc = "resolved" /\ c.result.kind = "text")
          => c.result.parsed = "false"

\* C25 (as claimed): calculateConfidenceScore gives 0.1 for an absent data
\* object, exactly 1.0 for a quote with price 100, volume 5000, a source and
\* a timestamp of now, exactly 0.7 for a quote with only price 100, and
\* always a score in [0.1, 1.0].
C25_ConfidenceScore ==
    scored # NoScore =>
       /\ scored.data = NoData => scored.score = Tenth
       /\ scored.data = [symbol |-> "AAPL", price |-> 100, volume |-> 5000,
                         source |-> "x", timestamp |-> scored.at]
             => scored.score = One
       /\ scored.data = [symbol |-> "AAPL", price |-> 100]
             => scored.score = SevenTenths
       /\ DoubleLeq(Tenth, scored.score)
       /\ DoubleLeq(scored.score, One)

(***************************************************************************)
(* Claims about StockDataClient.getStockHistory                            *)
(***************************************************************************)
\* C26: a getStockHistory call contacts Alpha Vantage and no other provider,
\* never raises, and returns null whenever the provider failed (rejected
\* fetch, unreadable body, rate-limit note, missing time series).
C26_HistorySingleProvider ==
    \A c \in HistoryCalls :
       /\ c.net = <<"alpha_vantage">>
       /\ c.pc = "done" =>
             /\ c.outcome = "returned"
             /\ ~AlphaVantageGetHistoricalData(c.timeframe, c.reply).ok
                   => c.value = NoSeries

\* C26 witness: one call has returned null after the rate-limit note while
\* another has returned the daily series
C26_Witness ==
    \E c1 \in HistoryCalls, c2 \in HistoryCalls :
       /\ c1.pc = "done" /\ c1.reply = "note" /\ c1.outcome = "returned"
       /\ c1.value = NoSeries
       /\ c2.pc = "done" /\ c2.reply = "series"
       /\ c2.value.function = "TIME_SERIES_DAILY"

(***************************************************************************)
(* Claims about the configuration and the result cache of LLMProcessor     *)
(***************************************************************************)
\* C27 (as claimed): once updateConfig has persisted a key, a base URL and a
\* model, an initialize() leaves apiKey, baseUrl and model equal to the
\* persisted values.
C27_ConfigRoundTrip ==
    [][(settings # NoSettings /\ Initialize) =>
          /\ apiKey' = settings.apiKey
          /\ baseUrl' = settings.llmBaseUrl
          /\ model' = settings.llmModel]_vars

\* the calls added by a step
Added == {c \in BagToSet(llm') : CopiesIn(c, llm') > CopiesIn(c, llm)}

\* a put of processTaskInput: the call resumes with a truthy gateway result
PutOf(c) ==
    /\ c.via = "makeLLMCall"
    /\ c.op = "processTaskInput"
    /\ Truthy(c.result)
    /\ Continue(c)

\* C28 (as claimed): the entry a later processTaskInput call of the same
\* text is served is the result the storing call returned.
C28_HitReturnsFirstResult ==
    [][\A c \in Calls :
          PutOf(c) => CacheGet(llmCache', CacheKeyOf(c.op, c.input)) = OpReturn(c)]_vars

\* C28 (amended): a processTaskInput call that finds an entry for its text,
\* however old, sends no request and computes no fallback and returns that
\* entry; the entry is a copy of the result the last storing call for that
\* text returned, with the field cacheTimestamp added.
C28_HitReturnsStoredCopy ==
    [][/\ \A i \in GatewayInputs :
             CacheHit("processTaskInput", i) =>
                \E c \in Added :
                   /\ c.via = "cache" /\ ~c.remote /\ c.pc = "resolved"
                   /\ c.result = CacheGet(llmCache, CacheKeyOf("processTaskInput", i))
       /\ \A c \in Calls :
             PutOf(c) =>
                CacheGet(llmCache', CacheKeyOf(c.op, c.input)) =
                   [src |-> OpReturn(c).src, kind |-> OpReturn(c).kind,
                    parsed |-> OpReturn(c).parsed, cacheTimestamp |-> now]]_vars

\* C28 witness: a processTaskInput call was served an entry stored a day
\* or more before
C28_Witness ==
    \E c \in Calls :
       /\ c.via = "cache" /\ c.op = "processTaskInput"
       /\ c.result.src = "remote"
       /\ now - c.result.cacheTimestamp >= DAY_MS

(***************************************************************************)
(* Claims about overlapping calls and cache hits                           *)
(***************************************************************************)
\* C29: a getStockPrice call for a symbol without a fresh cache entry,
\* started while another call for that symbol is still awaiting the primary
\* provider, misses the cache too and sends its own request to the primary
\* provider.
C29_NoSingleFlight ==
    [][\A s \in Symbols :
          (/\ GetStockPrice(s)
           /\ ~CacheFresh(s, now)
           /\ \E c \in StockCalls : c.symbol = s /\ c.pc = "alpha")
          => \E c2 \in BagToSet(stock') :
                /\ CopiesIn(c2, stock') > CopiesIn(c2, stock)
                /\ c2.symbol = s
                /\ c2.pc = "alpha"
                /\ c2.net = <<"alpha_vantage">>]_vars

\* C29 witness: two requests to the primary provider are in flight for one
\* symbol that has no cache entry
C29_Witness ==
    \E s \in Symbols :
       /\ stockCache[s] = NoQuote
       /\ BagCardinality([c \in {d \in StockCalls : d.symbol = s /\ d.pc = "alpha"}
                            |-> CopiesIn(c, stock)]) >= 2

\* C30: a processTaskInput or analyzeConditionResults call that is served
\* from the cache leaves the cache as it was: the same entries with the same
\* values in the same insertion order, which is the eviction order.
C30_NoPromotionOnHit ==
    [][\A op \in CachedOps, i \in CacheInputs :
          CacheHit(op, i) => llmCache' = llmCache]_vars

\* C30 witness: the entry a call was served has been evicted by a later put
\* although no call was served any of the entries that are left in the full
\* cache
C30_Witness ==
    /\ Len(llmCache) = maxCacheSize
    /\ \E c \in Calls : Evicted(c)
    /\ \A c \in Calls :
          c.via = "cache" => ~CacheHas(llmCache, CacheKeyOf(c.op, c.input))

(***************************************************************************)
(* Claims about the provider order and the two maps of StockDataClient     *)
(***************************************************************************)
\* C31: within one getStockPrice call the providers are contacted in the
\* order Alpha Vantage, Yahoo Finance; Yahoo Finance is contacted only once
\* Alpha Vantage has failed in that call; and a call that Alpha Vantage
\* answered contacts no other provider and returns a quote whose source
\* names Alpha Vantage.
C31_ProviderOrder ==
    \A c \in StockCalls :
       /\ c.net \in {<<>>, <<"alpha_vantage">>, <<"alpha_vantage", "yahoo_finance">>}
       /\ Len(c.net) = 2 =>
             /\ Len(c.errors) >= 1
             /\ c.errors[1].tag = "Alpha Vantage API error"
       /\ (c.pc = "done" /\ c.net # <<>> /\ c.errors = <<>>) =>
             /\ c.net = <<"alpha_vantage">>
             /\ c.outcome = "returned"
             /\ c.value.source = "alpha_vantage"

\* C31 witness: one call was answered by Alpha Vantage alone while another
\* was answered by Yahoo Finance after Alpha Vantage had failed
C31_Witness ==
    \E c1 \in StockCalls, c2 \in StockCalls :
       /\ c1.pc = "done" /\ c1.net = <<"alpha_vantage">>
       /\ c1.value.source = "alpha_vantage"
       /\ c2.pc = "done" /\ c2.net = <<"alpha_vantage", "yahoo_finance">>
       /\ c2.outcome = "returned" /\ c2.value.source = "yahoo_finance"

(***************************************************************************)
(* Claims about the open circuit and the failure count                     *)
(***************************************************************************)
\* C32 (as claimed): while remoteDisabled is true no makeLLMCall completes
\* with a remote result; a call that finishes after another call's failure
\* opened the circuit returns the fallback.
C32_NoRemoteResultWhileOpen ==
    [][remoteDisabled =>
          \A c \in Added :
             (c.via = "makeLLMCall" /\ c.pc = "resolved") => c.result.src # "remote"]_vars

\* C32 (amended): while remoteDisabled is true a makeLLMCall that starts
\* sends no request and returns the fallback, and a request that fails
\* returns the fallback; a request that was sent before the circuit opened
\* and is answered with a 2xx reply afterwards still returns the decoded
\* remote reply.
C32_OpenCircuitGatesStartsOnly ==
    [][remoteDisabled =>
          /\ \A op \in CachedOps, i \in GatewayInputs :
                StartOp(op, i) =>
                   \E d \in Added :
                      /\ ~d.remote /\ d.pc = "resolved"
                      /\ d.result = fallbackProcessing(PromptTypeOf(op))
          /\ \A c \in Calls, o \in CacheFailures :
                RespondFail(c, o) =>
                   \E d \in Added :
                      /\ d.pc = "resolved"
                      /\ d.result = fallbackProcessing(PromptTypeOf(c.op))
          /\ \A c \in Calls, o \in GatewayReplies :
                RespondOk(c, o) =>
                   /\ c.remote /\ ~c.startDisabled
                   /\ \E d \in Added :
                         /\ d.pc = "resolved" /\ d.op = c.op
                         /\ d.result = parseLLMResponse(o)]_vars

\* C32 witness: with the circuit open, a call whose request failed holds
\* the fallback, and a call whose request was answered a day after that
\* failure holds the remote reply
C32_Witness ==
    /\ remoteDisabled
    /\ \E c \in Calls, f \in Calls :
          /\ f.remote /\ f.pc = "resolved" /\ f.result.src = "fallback"
          /\ c.remote /\ c.pc = "resolved" /\ c.result.src = "remote"
          /\ c.answeredAt >= f.answeredAt + DAY_MS

\* C33: the lastFetchTime of a symbol never decreases, whatever the
\* interleaving of the getStockPrice calls.
C33_LastFetchTimeMonotonic ==
    [][\A s \in Symbols : lastFetchTime'[s] >= lastFetchTime[s]]_vars

\* C34: StockDataClient.cache and StockDataClient.lastFetchTime hold the
\* same keys in every state: a symbol has a cached quote exactly when it has
\* a fetch time.
C34_SameKeys ==
    \A s \in Symbols : (stockCache[s] # NoQuote) <=> (lastFetchTime[s] # NoTime)

\* C34 witness: after calls that succeeded and calls that failed, one
\* symbol is in both Maps and another symbol is in neither
C34_Witness ==
    /\ \E s \in Symbols : stockCache[s] # NoQuote /\ lastFetchTime[s] # NoTime
    /\ \E s \in Symbols :
          /\ stockCache[s] = NoQuote /\ lastFetchTime[s] = NoTime
          /\ \E c \in StockCalls :
                c.symbol = s /\ c.pc = "done" /\ c.outcome = "raised"

\* C35: in every state remoteDisabled is true exactly when failureCount is
\* at least 1, whatever gateway calls, initialize and updateConfig calls
\* have run.
C35_DisabledIffFailed ==
    remoteDisabled <=> failureCount >= 1

\* C35 witness: two requests have failed, and an updateConfig made after
\* them has put a key back while the circuit stays open
C35_Witness ==
    /\ remoteDisabled
    /\ failureCount = 2
    /\ ~Falsy(apiKey)
    /\ settings # NoSettings

\* C36: storeInCache never decreases the number of entries of the cache,
\* and it deletes an entry only when the key being stored is not in the
\* cache and the cache is full, also when calls for the same input overlap.
C36_PutNeverShrinks ==
    [][\A c \in Calls :
          PutOf(c) =>
             /\ Len(llmCache') >= Len(llmCache)
             /\ (\E i \in 1..Len(llmCache) :
                    ~CacheHas(llmCache', llmCache[i].key))
                => (/\ ~CacheHas(llmCache, CacheKeyOf(c.op, c.input))
                    /\ Len(llmCache) >= maxCacheSize)]_vars

(***************************************************************************)
(* Claims about what makeLLMCall and healthCheck hand back                 *)
(***************************************************************************)
\* C37: makeLLMCall never raises to its caller: for each of the five
\* promptTypes and for every answer of the endpoint (a 2xx reply of any
\* content, a non-2xx status, a network error, an unreadable body) the call
\* settles by returning a value, the decoded reply or the fallback of its
\* promptType, and the operation hands that value to its caller.
C37_NeverRaises ==
    \A c \in GatewayCalls :
       /\ c.pc = "fetch" => c.outcome = "pending"
       /\ c.pc = "resolved" =>
             /\ c.outcome = "returned"
             /\ c.result \in {fallbackProcessing(PromptTypeOf(c.op))}
                                \cup {parseLLMResponse(o) : o \in RemoteReplies}
             /\ c.op \in {"generateNotificationContent", "decideNextAction"}
                   => OpReturn(c) = c.result

\* C37 witness: a generateNotificationContent call whose request failed has
\* returned its fallback, and a decideNextAction call that was answered a
\* reply without choices has returned the fixed text
C37_Witness ==
    \E c \in GatewayCalls, d \in GatewayCalls :
       /\ c.op = "generateNotificationContent" /\ c.remote /\ c.pc = "resolved"
       /\ c.outcome = "returned"
       /\ c.result = fallbackProcessing("notification_content")
       /\ d.op = "decideNextAction" /\ d.remote /\ d.pc = "resolved"
       /\ d.outcome = "returned"
       /\ d.result = parseLLMResponse("no_choices")

\* C38: healthCheck reports 'healthy' only if its test call received a
\* successful reply of the endpoint; with a key configured and a failing
\* request it reports 'error'; without a key it reports 'no_key' and sends
\* nothing.
C38_HealthyMeansRemoteReply ==
    \A c \in Calls :
       (c.op = "healthCheck" /\ c.pc = "resolved") =>
          /\ OpReturn(c).kind = "healthy" =>
                (c.remote /\ c.result.src = "remote")
          /\ (c.remote /\ c.result.src # "remote") => OpReturn(c).kind = "error"
          /\ Falsy(c.startKey) => (OpReturn(c).kind = "no_key" /\ ~c.remote)

(***************************************************************************)
(* Claims about the content script                                         *)
(***************************************************************************)
\* C39: for one AgenticContentScript at most one SAVE_DETECTED_CONTEXT send
\* is outstanding at any time, whatever DOM mutations arrive; and
\* waitingForResponse is true exactly while such a send has not been
\* consumed: it is false again once the send has settled and its finally
\* has run, also for a send that found no extension context or whose
\* sendMessage threw, so that a later detection sends again.
C39_SingleInFlight ==
    LET saves == {m \in Messages : m.type = "SAVE_DETECTED_CONTEXT"}
        count == BagCardinality([m \in saves |-> CopiesIn(m, outbox)])
    IN  /\ count <= 1
        /\ waitingForResponse <=> count = 1

\* C39 witness: a SAVE_DETECTED_CONTEXT message is outstanding that was
\* sent after one earlier send had found no extension context and another
\* had seen sendMessage throw
C39_Witness ==
    /\ waitingForResponse
    /\ \E m \in Messages :
          /\ m.type = "SAVE_DETECTED_CONTEXT"
          /\ m.pc = "sent"
          /\ {"missing", "throws"} \subseteq m.after

====
